---- MODULE Spec2Model ----
(***************************************************************************)
(* picodb storage core: FileManager (block I/O), LogPage / LogManager      *)
(* (append-only log with backward iteration), BufferPage (typed page) and  *)
(* Buffer / BufferManager (pinning pool with write-ahead logging).         *)
(* Pages and blocks are modelled at the byte level: a buffer is a sequence *)
(* of bytes, buffer offset k (0-based) is element k + 1.                   *)
(***************************************************************************)
EXTENDS Integers, Sequences, FiniteSets, TLC

\* ---------------------------------------------------------------- bounds
BlockSize == 16
MaxAppends == 4
MaxReopens == 1
MaxPins == 2
MaxExtraUnpins == 1
MaxFields == 2
MaxPoolAppends == 2
MaxLogBlocks == 4
MaxBlockNumber == 1
MaxPayload == 3
MaxDestination == 6
MaxEncodes == 2

\* ------------------------------------------------------- program constants
RESERVED_SIZE_FOR_NUMBER_OF_OFFSETS == 2
SIZE_OF_OFFSET == 4
RESERVED_SIZE_FOR_BYTE_SLICE == 2
RESERVED_SIZE_FOR_TYPE == 1
U8_SIZE == 1
U16_SIZE == 2
U16_MAX == 65535
PoolFrames == 1

\* ------------------------------------------------------------ input sets
Records == { <<7>>, <<8, 9>> }
DataBlocks == {0, 1}
Capacities == {1, 2}
LsnInputs == {0, 1, 2, 3}
TxnInputs == {10}

\* ---------------------------------------------------------- byte helpers
Zeros(n) == [i \in 1..n |-> 0]

Min(a, b) == IF a < b THEN a ELSE b

Reverse(s) == [i \in 1..Len(s) |-> s[Len(s) + 1 - i]]

\* destination[offset .. offset + len(bytes)].copy_from_slice(bytes)
WriteAt(buf, off, bytes) ==
    LET end == off + Len(bytes) IN
    [i \in 1..Len(buf) |-> IF i > off /\ i <= end THEN bytes[i - off] ELSE buf[i]]

Slice(buf, from, to) == [i \in 1..(to - from) |-> buf[from + i]]

LE16(v) == << v % 256, (v \div 256) % 256 >>

LE32(v) == << v % 256, (v \div 256) % 256,
              (v \div 65536) % 256, (v \div 16777216) % 256 >>

ReadU16(buf, off) == buf[off + 1] + 256 * buf[off + 2]

ReadU32(buf, off) ==
    buf[off + 1] + 256 * buf[off + 2] + 65536 * buf[off + 3]
        + 16777216 * buf[off + 4]

\* ------------------------------------------------ encodex: byte-string codec
BytesNeededForEncoding(source) == RESERVED_SIZE_FOR_BYTE_SLICE + Len(source)

\* Variant of encode that writes the length prefix big-endian
BytesEncode_BigEndian(source, destination, off) ==
    LET required_size == RESERVED_SIZE_FOR_BYTE_SLICE + Len(source) IN
    IF off + required_size > Len(destination)
    THEN [ok |-> FALSE, buffer |-> destination, size |-> 0]
    ELSE [ok |-> TRUE,
          buffer |-> WriteAt(WriteAt(destination, off,
                                     Reverse(LE16(Len(source) % 65536))),
                             off + RESERVED_SIZE_FOR_BYTE_SLICE, source),
          size |-> required_size]

\* BytesEncoderDecoder::encode; ok = FALSE is the "Destination slice is too
\* small" panic.
BytesEncode(source, destination, off) ==
    LET required_size == RESERVED_SIZE_FOR_BYTE_SLICE + Len(source) IN
    IF off + required_size > Len(destination)
    THEN [ok |-> FALSE, buffer |-> destination, size |-> 0]
    ELSE [ok |-> TRUE,
          buffer |-> WriteAt(WriteAt(destination, off, LE16(Len(source) % 65536)),
                             off + RESERVED_SIZE_FOR_BYTE_SLICE, source),
          size |-> required_size]

\* BytesEncoderDecoder::decode; ok = FALSE is a slice-index panic.
BytesDecode(encoded, from_offset) ==
    IF from_offset + 2 > Len(encoded)
    THEN [ok |-> FALSE, value |-> <<>>, end_offset |-> 0]
    ELSE LET source_length == ReadU16(encoded, from_offset)
             end_offset == from_offset + RESERVED_SIZE_FOR_BYTE_SLICE + source_length
         IN IF end_offset > Len(encoded)
            THEN [ok |-> FALSE, value |-> <<>>, end_offset |-> 0]
            ELSE [ok |-> TRUE,
                  value |-> Slice(encoded, from_offset + RESERVED_SIZE_FOR_BYTE_SLICE,
                                  end_offset),
                  end_offset |-> end_offset]

\* ------------------------------------------------------- StartingOffsets
RECURSIVE StartingOffsetsEncode(_)
StartingOffsetsEncode(offsets) ==
    IF offsets = <<>> THEN <<>>
    ELSE LE32(Head(offsets)) \o StartingOffsetsEncode(Tail(offsets))

StartingOffsetsDecode(bytes) ==
    [i \in 1..(Len(bytes) \div SIZE_OF_OFFSET) |->
        ReadU32(bytes, (i - 1) * SIZE_OF_OFFSET)]

\* ------------------------------------------------------------ FileManager
\* Variant of starting_offset that takes the block number as a byte offset
StartingOffset_AsByteOffset(n) == n

\* A file is the sequence of its bytes.  BlockId::starting_offset is
\* block_number * block_size.
StartingOffset(n) == n * BlockSize

\* Variant of read whose buffer starts as 255s instead of zeros
FileRead_BufferOfOnes(file, n) ==
    [i \in 1..BlockSize |->
        IF n * BlockSize + i <= Len(file) THEN file[n * BlockSize + i] ELSE 255]

\* FileManager::read: seek to the block, File::read into vec![0; block_size];
\* the bytes the file does not have stay zero
FileRead(file, n) ==
    [i \in 1..BlockSize |->
        IF StartingOffset(n) + i <= Len(file)
        THEN file[StartingOffset(n) + i] ELSE 0]

\* Variant of write that ignores the seek and appends the data to the file
FileWrite_Appends(file, n, data) == file \o data

\* FileManager::write: seek to the block and write_all(data), whatever the
\* length of data; a seek past the end leaves a hole of zeros
FileWrite(file, n, data) ==
    [i \in 1..(IF StartingOffset(n) + Len(data) > Len(file)
               THEN StartingOffset(n) + Len(data) ELSE Len(file)) |->
        IF i > StartingOffset(n) /\ i <= StartingOffset(n) + Len(data)
        THEN data[i - StartingOffset(n)]
        ELSE IF i <= Len(file) THEN file[i] ELSE 0]

\* FileManager::number_of_blocks: metadata.len() as usize / block_size
NumberOfBlocks(file) == Len(file) \div BlockSize

\* Variant of append_empty_block that zeroes block 0
AppendEmptyBlock_AtZero(file) ==
    [file |-> FileWrite(file, 0, Zeros(BlockSize)), block |-> 0]

\* FileManager::append_empty_block: the block numbered number_of_blocks is
\* written with zeros
AppendEmptyBlock(file) ==
    [file |-> FileWrite(file, NumberOfBlocks(file), Zeros(BlockSize)),
     block |-> NumberOfBlocks(file)]

ReadInto(file, n) == FileRead(file, n)

\* ---------------------------------------------------------------- LogPage
LogPageNew ==
    [buffer |-> Zeros(BlockSize), starting_offsets |-> <<>>,
     current_write_offset |-> 0]

\* Variant of has_capacity_for that wants one spare byte
HasCapacityFor_Strict(p, data) ==
    LET bytes_available == Len(p.buffer) - p.current_write_offset
                             - Len(p.starting_offsets) * SIZE_OF_OFFSET
                             - RESERVED_SIZE_FOR_NUMBER_OF_OFFSETS
        bytes_needed == BytesNeededForEncoding(data) + SIZE_OF_OFFSET
    IN bytes_available > bytes_needed

\* Variant of has_capacity_for that does not count the existing directory
HasCapacityFor_WithoutDirectory(p, data) ==
    LET bytes_available == Len(p.buffer) - p.current_write_offset
                             - RESERVED_SIZE_FOR_NUMBER_OF_OFFSETS
        bytes_needed == BytesNeededForEncoding(data) + SIZE_OF_OFFSET
    IN bytes_available >= bytes_needed

\* LogPage::has_capacity_for
HasCapacityFor(p, data) ==
    LET bytes_available == Len(p.buffer) - p.current_write_offset
                             - Len(p.starting_offsets) * SIZE_OF_OFFSET
                             - RESERVED_SIZE_FOR_NUMBER_OF_OFFSETS
        bytes_needed == BytesNeededForEncoding(data) + SIZE_OF_OFFSET
    IN bytes_available >= bytes_needed

\* LogPage::add when has_capacity_for holds
LogPageAdd(p, data) ==
    LET e == BytesEncode(data, p.buffer, p.current_write_offset) IN
    [buffer |-> e.buffer,
     starting_offsets |-> Append(p.starting_offsets, p.current_write_offset),
     current_write_offset |-> p.current_write_offset + e.size]

\* Variant of add that records the starting offset before it tests the
\* capacity
LogPageTryAdd_OffsetFirst(p, data) ==
    IF HasCapacityFor(p, data)
    THEN [ok |-> TRUE, page |-> LogPageAdd(p, data)]
    ELSE [ok |-> FALSE,
          page |-> [p EXCEPT !.starting_offsets =
                                Append(p.starting_offsets, p.current_write_offset)]]

\* LogPage::add: ok is the bool it returns, page the page after the call
LogPageTryAdd(p, data) ==
    IF HasCapacityFor(p, data)
    THEN [ok |-> TRUE, page |-> LogPageAdd(p, data)]
    ELSE [ok |-> FALSE, page |-> p]

\* PageEncoder::encode of the log page: offsets, then the count at the tail
LogPageEncode(buffer, starting_offsets) ==
    LET at == Len(buffer) - RESERVED_SIZE_FOR_NUMBER_OF_OFFSETS
                - Len(starting_offsets) * SIZE_OF_OFFSET
    IN WriteAt(WriteAt(buffer, at, StartingOffsetsEncode(starting_offsets)),
               Len(buffer) - RESERVED_SIZE_FOR_NUMBER_OF_OFFSETS,
               LE16(Len(starting_offsets) % 65536))

\* LogPage::finish; ok = FALSE is panic!("empty log page")
LogPageFinish(p) ==
    IF Len(p.starting_offsets) = 0
    THEN [ok |-> FALSE, page |-> p]
    ELSE [ok |-> TRUE,
          page |-> [p EXCEPT !.buffer = LogPageEncode(p.buffer, p.starting_offsets)]]

\* Variant of decode_page that restarts writing at offset 0
LogPageDecode_WriteOffsetZero(buffer) ==
    LET number_of_offsets ==
            ReadU16(buffer, Len(buffer) - RESERVED_SIZE_FOR_NUMBER_OF_OFFSETS)
        at == Len(buffer) - RESERVED_SIZE_FOR_NUMBER_OF_OFFSETS
                - SIZE_OF_OFFSET * number_of_offsets
    IN IF at < 0 \/ number_of_offsets = 0
       THEN [ok |-> FALSE, page |-> LogPageNew]
       ELSE [ok |-> TRUE,
             page |-> [buffer |-> buffer,
                       starting_offsets |->
                           StartingOffsetsDecode(
                               Slice(buffer, at, at + SIZE_OF_OFFSET * number_of_offsets)),
                       current_write_offset |-> 0]]

\* PageDecoder::decode_page of the log page; ok = FALSE is a panic
\* (last_offset().unwrap() on a page with no offsets, or a slice index).
LogPageDecode(buffer) ==
    LET number_of_offsets ==
            ReadU16(buffer, Len(buffer) - RESERVED_SIZE_FOR_NUMBER_OF_OFFSETS)
        at == Len(buffer) - RESERVED_SIZE_FOR_NUMBER_OF_OFFSETS
                - SIZE_OF_OFFSET * number_of_offsets
    IN IF at < 0 \/ number_of_offsets = 0
       THEN [ok |-> FALSE, page |-> LogPageNew]
       ELSE LET starting_offsets ==
                    StartingOffsetsDecode(
                        Slice(buffer, at, at + SIZE_OF_OFFSET * number_of_offsets))
                d == BytesDecode(buffer, starting_offsets[Len(starting_offsets)])
            IN [ok |-> d.ok,
                page |-> [buffer |-> buffer, starting_offsets |-> starting_offsets,
                          current_write_offset |-> d.end_offset]]

\* LogPage::bytes_at
BytesAt(p, offset) == BytesDecode(p.buffer, offset)

\* -------------------------------------------------------------------- state
VARIABLES
    alive,                          \* FALSE once the process has panicked
    log_file, data_file,            \* FileManager: the blocks of the two files
    log_page, current_block_id,     \* LogManager
    latest_log_sequence_number, last_saved_log_sequence_number,
    buffer_pool, available_buffers, \* BufferManager
    capacity,                       \* the capacity BufferManager::new was given
    handle,                         \* frame the client holds a &mut Buffer to (0: none)
    iterator,                       \* BackwardLogIterator: <<>> or <<it>>
    last_op,                        \* the last call and what it returned / issued
    appended,                       \* records appended by this LogManager, by LSN
    log_history,                    \* records this LogManager's log holds, oldest first
    durable_history,                \* log_history as of the last force_flush
    written,                        \* every record ever appended, across reopens
    reopens,                        \* number of reopens so far
    unflushed_closes,               \* reopens that dropped a LogManager holding unflushed records
    expected,                       \* per data block: the fields last written back
    yielded, iter_expect            \* records the iterator returned / should return

vars == << alive, log_file, data_file, log_page, current_block_id,
           latest_log_sequence_number, last_saved_log_sequence_number,
           buffer_pool, available_buffers, capacity, handle, iterator, last_op,
           appended, log_history, durable_history, written, reopens,
           unflushed_closes, expected, yielded, iter_expect >>

logVars == << log_page, current_block_id, latest_log_sequence_number,
              last_saved_log_sequence_number >>
logGhost == << appended, log_history, durable_history, written >>
poolVars == << buffer_pool, available_buffers, capacity, handle, expected >>
iterVars == << iterator, yielded, iter_expect >>

NoBlock == -1

NoOp ==
    [op |-> "new", result |-> "ok", panic_at |-> "", block |-> NoBlock,
     frame |-> 0, lsn |-> 0, log_flushed |-> FALSE, page_written |-> FALSE,
     written_block |-> NoBlock, loaded |-> FALSE, value |-> <<>>,
     contract |-> TRUE, index |-> 0, file |-> "", count |-> 0,
     source |-> <<>>, encodes |-> 0]

Op(name, result) == [NoOp EXCEPT !.op = name, !.result = result]

\* ------------------------------------------------------------- LogManager
\* Variant of force_flush that finishes the page but does not write it
ForceFlush_NoWrite(page, block, file) ==
    LET Write(f) ==
            IF f.ok
            THEN [ok |-> TRUE, log_page |-> f.page, log_file |-> file]
            ELSE [ok |-> FALSE, log_page |-> page, log_file |-> file]
    IN Write(LogPageFinish(page))

\* LogManager::force_flush on (page, block, file): finish the page and write
\* it to the current block. ok = FALSE: finish panicked, nothing was written.
ForceFlush(page, block, file) ==
    LET Write(f) ==
            IF f.ok
            THEN [ok |-> TRUE, log_page |-> f.page,
                  log_file |-> FileWrite(file, block, f.page.buffer)]
            ELSE [ok |-> FALSE, log_page |-> page, log_file |-> file]
    IN Write(LogPageFinish(page))

\* Variant of the flush test with the comparison reversed
FlushNeeded_Reversed(lsn, last_saved) == lsn < last_saved

\* LogManager::flush(lsn) on the manager's state
FlushNeeded(lsn, last_saved) == lsn >= last_saved

\* Variant of flush that records the LSN it was asked for as saved
LogFlush_SavesArgument(lsn, page, block, file, latest, last_saved) ==
    IF FlushNeeded(lsn, last_saved)
    THEN LET Saved(ff) ==
                 [ok |-> ff.ok, flushed |-> ff.ok, log_page |-> ff.log_page,
                  log_file |-> ff.log_file,
                  last_saved |-> IF ff.ok THEN lsn ELSE last_saved]
         IN Saved(ForceFlush(page, block, file))
    ELSE [ok |-> TRUE, flushed |-> FALSE, log_page |-> page, log_file |-> file,
          last_saved |-> last_saved]

LogFlush(lsn, page, block, file, latest, last_saved) ==
    IF FlushNeeded(lsn, last_saved)
    THEN LET Saved(ff) ==
                 [ok |-> ff.ok, flushed |-> ff.ok, log_page |-> ff.log_page,
                  log_file |-> ff.log_file,
                  last_saved |-> IF ff.ok THEN latest ELSE last_saved]
         IN Saved(ForceFlush(page, block, file))
    ELSE [ok |-> TRUE, flushed |-> FALSE, log_page |-> page, log_file |-> file,
          last_saved |-> last_saved]

Panic(name) ==
    /\ alive' = FALSE
    /\ last_op' = Op(name, "panic")

\* LogManager::append
LmAppend(rec) ==
    /\ alive
    /\ Len(written) < MaxAppends
    /\ IF HasCapacityFor(log_page, rec)
       THEN /\ log_page' = LogPageAdd(log_page, rec)
            /\ latest_log_sequence_number' = latest_log_sequence_number + 1
            /\ appended' = Append(appended,
                   [rec |-> rec, block |-> current_block_id,
                    slot |-> Len(log_page.starting_offsets) + 1])
            /\ log_history' = Append(log_history, rec)
            /\ written' = Append(written, rec)
            /\ last_op' = Op("append", "ok")
            /\ UNCHANGED << alive, log_file, current_block_id,
                            last_saved_log_sequence_number, durable_history >>
       ELSE LET ff == ForceFlush(log_page, current_block_id, log_file)
                ab == AppendEmptyBlock(ff.log_file)
            IN IF ~ff.ok
               THEN /\ Panic("append")
                    /\ UNCHANGED << log_file, logVars, logGhost >>
               ELSE IF ~HasCapacityFor(LogPageNew, rec)
               THEN /\ Panic("append")
                    /\ log_file' = ab.file
                    /\ durable_history' = log_history
                    /\ log_history' = Append(log_history, rec)
                    /\ UNCHANGED << logVars, appended, written >>
               ELSE /\ log_file' = ab.file
                    /\ current_block_id' = ab.block
                    /\ log_page' = LogPageAdd(LogPageNew, rec)
                    /\ last_saved_log_sequence_number' = latest_log_sequence_number
                    /\ latest_log_sequence_number' = latest_log_sequence_number + 1
                    /\ durable_history' = log_history
                    /\ appended' = Append(appended,
                           [rec |-> rec, block |-> ab.block, slot |-> 1])
                    /\ log_history' = Append(log_history, rec)
                    /\ written' = Append(written, rec)
                    /\ last_op' = [Op("append", "ok") EXCEPT !.log_flushed = TRUE]
                    /\ UNCHANGED alive
    /\ UNCHANGED << data_file, poolVars, iterVars, reopens, unflushed_closes >>

\* LogManager::flush
LmFlush(lsn) ==
    /\ alive
    /\ LET r == LogFlush(lsn, log_page, current_block_id, log_file,
                         latest_log_sequence_number, last_saved_log_sequence_number)
       IN IF r.ok
          THEN /\ log_page' = r.log_page
               /\ log_file' = r.log_file
               /\ last_saved_log_sequence_number' = r.last_saved
               /\ durable_history' = IF r.flushed THEN log_history ELSE durable_history
               /\ last_op' = [Op("flush", "ok") EXCEPT !.log_flushed = r.flushed]
               /\ UNCHANGED alive
          ELSE /\ Panic("flush")
               /\ UNCHANGED << log_page, log_file, last_saved_log_sequence_number,
                               durable_history >>
    /\ UNCHANGED << data_file, current_block_id, latest_log_sequence_number,
                    appended, log_history, written, poolVars, iterVars, reopens,
                    unflushed_closes >>

\* -------------------------------------------------- BackwardLogIterator
\* Variant of the record iterator that starts at the first record
RecordIteratorNew_FromFirst(page) ==
    [page |-> page, current_offset_index |-> << 0 >>]

\* BackwardRecordIterator::new
RecordIteratorNew(page) ==
    [page |-> page,
     current_offset_index |-> << Len(page.starting_offsets) - 1 >>]

\* BackwardRecordIterator::record: <<>> (None) or <<record>>, and the
\* iterator after the call
RecordIteratorRecord(it) ==
    IF it.current_offset_index = <<>>
    THEN [value |-> <<>>, it |-> it]
    ELSE LET offset_index == it.current_offset_index[1] IN
         IF offset_index < 0 \/ offset_index >= Len(it.page.starting_offsets)
         THEN [value |-> <<>>, it |-> it]
         ELSE [value |-> << BytesAt(it.page,
                               it.page.starting_offsets[offset_index + 1]).value >>,
               it |-> [it EXCEPT !.current_offset_index =
                          IF offset_index = 0 THEN <<>> ELSE << offset_index - 1 >>]]

\* LogManager::backward_iterator, with BackwardLogIterator::new
LmBackwardIterator ==
    /\ alive
    /\ LET ff == ForceFlush(log_page, current_block_id, log_file)
           d == LogPageDecode(ReadInto(ff.log_file, current_block_id))
       IN IF ff.ok /\ d.ok
          THEN /\ log_page' = ff.log_page
               /\ log_file' = ff.log_file
               /\ last_saved_log_sequence_number' = latest_log_sequence_number
               /\ durable_history' = log_history
               /\ iterator' = << [current_block_id |-> current_block_id,
                                  record_iterator |-> RecordIteratorNew(d.page)] >>
               /\ yielded' = <<>>
               /\ iter_expect' = [history |-> log_history, written |-> written]
               /\ last_op' = [Op("backward_iterator", "ok") EXCEPT !.log_flushed = TRUE]
               /\ UNCHANGED alive
          ELSE /\ Panic("backward_iterator")
               /\ UNCHANGED << log_page, log_file, last_saved_log_sequence_number,
                               durable_history, iterVars >>
    /\ UNCHANGED << data_file, current_block_id, latest_log_sequence_number,
                    appended, log_history, written, poolVars, reopens,
                    unflushed_closes >>

\* BackwardLogIterator::record
IterRecord ==
    /\ alive
    /\ iterator # <<>>
    /\ LET it == iterator[1]
           r == RecordIteratorRecord(it.record_iterator)
       IN IF r.value # <<>>
          THEN /\ iterator' = << [it EXCEPT !.record_iterator = r.it] >>
               /\ yielded' = Append(yielded, r.value[1])
               /\ last_op' = [Op("record", "some") EXCEPT !.value = r.value]
               /\ UNCHANGED alive
          ELSE IF it.current_block_id > 0
          THEN LET previous == it.current_block_id - 1
                   d == LogPageDecode(ReadInto(log_file, previous))
                   r2 == RecordIteratorRecord(RecordIteratorNew(d.page))
               IN IF ~d.ok
                  THEN /\ Panic("record")
                       /\ UNCHANGED << iterator, yielded >>
                  ELSE /\ iterator' = << [current_block_id |-> previous,
                                          record_iterator |-> r2.it] >>
                       /\ yielded' = yielded \o r2.value
                       /\ last_op' = [Op("record", IF r2.value = <<>> THEN "none" ELSE "some")
                                         EXCEPT !.value = r2.value]
                       /\ UNCHANGED alive
          ELSE /\ last_op' = Op("record", "none")
               /\ UNCHANGED << alive, iterator, yielded >>
    /\ UNCHANGED << log_file, data_file, logVars, logGhost, poolVars, iter_expect,
                    reopens, unflushed_closes >>

\* What a failed FileManager::write / append_empty_block may leave in the
\* file: write_all can fail before the bytes land, sync_data after.
IoFailures == { "write", "append_empty_block", "read_into" }

\* Variant of the failing force_flush that records the latest LSN as saved
ForceFlushError_SavesLatest(page, block, file, latest, saved, landed) ==
    LET Failed(ff) ==
            [possible |-> ff.ok, log_page |-> ff.log_page,
             log_file |-> IF landed THEN ff.log_file ELSE file,
             last_saved |-> latest]
    IN Failed(ForceFlush(page, block, file))

\* LogManager::force_flush returning Err: finish has encoded the page, the
\* write fails (landed: its bytes reached the file) and the ? returns before
\* last_saved_log_sequence_number is assigned.  possible = FALSE: finish
\* panics before the write.
ForceFlushError(page, block, file, latest, saved, landed) ==
    LET Failed(ff) ==
            [possible |-> ff.ok, log_page |-> ff.log_page,
             log_file |-> IF landed THEN ff.log_file ELSE file,
             last_saved |-> saved]
    IN Failed(ForceFlush(page, block, file))

\* LogManager::append returning Err: the record does not fit and the rollover
\* fails in force_flush's write (at = "write") or, after the flush, in
\* append_empty_block
LmAppendIoError(rec, at, landed) ==
    /\ alive
    /\ ~HasCapacityFor(log_page, rec)
    /\ at \in { "write", "append_empty_block" }
    /\ (at = "append_empty_block" /\ landed) => NumberOfBlocks(log_file) < MaxLogBlocks
    /\ IF at = "write"
       THEN \E e \in { ForceFlushError(log_page, current_block_id, log_file,
                                       latest_log_sequence_number,
                                       last_saved_log_sequence_number, landed) } :
               /\ e.possible
               /\ log_page' = e.log_page
               /\ log_file' = e.log_file
               /\ last_saved_log_sequence_number' = e.last_saved
               /\ durable_history' = IF landed THEN log_history ELSE durable_history
       ELSE \E ff \in { ForceFlush(log_page, current_block_id, log_file) } :
               /\ ff.ok
               /\ log_page' = ff.log_page
               /\ log_file' = IF landed THEN AppendEmptyBlock(ff.log_file).file
                              ELSE ff.log_file
               /\ durable_history' = log_history
               /\ last_saved_log_sequence_number' = latest_log_sequence_number
    /\ last_op' = [Op("append", "io_error") EXCEPT !.panic_at = at]
    /\ UNCHANGED << alive, data_file, current_block_id, latest_log_sequence_number,
                    appended, log_history, written, poolVars, iterVars, reopens,
                    unflushed_closes >>

\* LogManager::flush returning Err: force_flush's write fails
LmFlushIoError(lsn, landed) ==
    /\ alive
    /\ FlushNeeded(lsn, last_saved_log_sequence_number)
    /\ \E e \in { ForceFlushError(log_page, current_block_id, log_file,
                                  latest_log_sequence_number,
                                  last_saved_log_sequence_number, landed) } :
          /\ e.possible
          /\ log_page' = e.log_page
          /\ log_file' = e.log_file
          /\ last_saved_log_sequence_number' = e.last_saved
    /\ durable_history' = IF landed THEN log_history ELSE durable_history
    /\ last_op' = [Op("flush", "io_error") EXCEPT !.panic_at = "write"]
    /\ UNCHANGED << alive, data_file, current_block_id, latest_log_sequence_number,
                    appended, log_history, written, poolVars, iterVars, reopens,
                    unflushed_closes >>

\* LogManager::backward_iterator returning Err: force_flush's write fails, or
\* the read of BackwardLogIterator::new fails after the flush
LmBackwardIteratorIoError(at, landed) ==
    /\ alive
    /\ at \in { "write", "read_into" }
    /\ at = "read_into" => landed
    /\ IF at = "write"
       THEN \E e \in { ForceFlushError(log_page, current_block_id, log_file,
                                       latest_log_sequence_number,
                                       last_saved_log_sequence_number, landed) } :
               /\ e.possible
               /\ log_page' = e.log_page
               /\ log_file' = e.log_file
               /\ last_saved_log_sequence_number' = e.last_saved
       ELSE \E ff \in { ForceFlush(log_page, current_block_id, log_file) } :
               /\ ff.ok
               /\ log_page' = ff.log_page
               /\ log_file' = ff.log_file
               /\ last_saved_log_sequence_number' = latest_log_sequence_number
    /\ durable_history' = IF landed THEN log_history ELSE durable_history
    /\ last_op' = [Op("backward_iterator", "io_error") EXCEPT !.panic_at = at]
    /\ UNCHANGED << alive, data_file, current_block_id, latest_log_sequence_number,
                    appended, log_history, written, poolVars, iterVars, reopens,
                    unflushed_closes >>

\* ------------------------------------------------- buffer: SupportedType
\* From<SupportedType> for u8
TypeTag(t) ==
    CASE t = "TypeU8" -> 0
      [] t = "TypeU16" -> 1
      [] t = "TypeBytes" -> 2
      [] t = "TypeString" -> 3

\* Variant of From<u8> with the tags U8=0, U16=1, U32=2, Bytes=3, String=4
TypeOfTag_FiveTags(b) ==
    CASE b = 0 -> "TypeU8"
      [] b = 1 -> "TypeU16"
      [] b = 3 -> "TypeBytes"
      [] b = 4 -> "TypeString"
      [] OTHER -> "unreachable"

\* From<u8> for SupportedType; "unreachable" is the unreachable!() panic
TypeOfTag(b) ==
    CASE b = 0 -> "TypeU8"
      [] b = 1 -> "TypeU16"
      [] b = 2 -> "TypeBytes"
      [] b = 3 -> "TypeString"
      [] OTHER -> "unreachable"

\* String::from_utf8_lossy on the bytes: a byte that is not ASCII is not
\* valid on its own and becomes U+FFFD (the inputs here are ASCII)
Utf8Lossy(bytes) == [i \in 1..Len(bytes) |-> IF bytes[i] < 128 THEN bytes[i] ELSE 65533]

\* A field value is a sequence: <<n>> for u8 and u16, the bytes for bytes and
\* string.  EncodeField is the encode_fn of add_<T> / mutate_<T>;
\* ok = FALSE is an index or "too small" panic.
EncodeField(t, value, destination, off) ==
    CASE t = "TypeU8" ->
            IF off + U8_SIZE > Len(destination)
            THEN [ok |-> FALSE, buffer |-> destination, size |-> 0]
            ELSE [ok |-> TRUE, buffer |-> WriteAt(destination, off, << value[1] % 256 >>),
                  size |-> U8_SIZE]
      [] t = "TypeU16" ->
            IF off + U16_SIZE > Len(destination)
            THEN [ok |-> FALSE, buffer |-> destination, size |-> 0]
            ELSE [ok |-> TRUE, buffer |-> WriteAt(destination, off, LE16(value[1])),
                  size |-> U16_SIZE]
      [] OTHER -> BytesEncode(value, destination, off)

\* <T>EncoderDecoder::decode at an offset: the value and the end offset
DecodeField(t, encoded, from_offset) ==
    CASE t = "TypeU8" ->
            IF from_offset + U8_SIZE > Len(encoded)
            THEN [ok |-> FALSE, value |-> <<>>, end_offset |-> 0]
            ELSE [ok |-> TRUE, value |-> << encoded[from_offset + 1] >>,
                  end_offset |-> from_offset + U8_SIZE]
      [] t = "TypeU16" ->
            IF from_offset + U16_SIZE > Len(encoded)
            THEN [ok |-> FALSE, value |-> <<>>, end_offset |-> 0]
            ELSE [ok |-> TRUE, value |-> << ReadU16(encoded, from_offset) >>,
                  end_offset |-> from_offset + U16_SIZE]
      [] t = "TypeBytes" -> BytesDecode(encoded, from_offset)
      [] t = "TypeString" ->
            LET d == BytesDecode(encoded, from_offset) IN
            [d EXCEPT !.value = Utf8Lossy(d.value)]
      [] OTHER -> [ok |-> FALSE, value |-> <<>>, end_offset |-> 0]

\* ------------------------------------------------------ buffer: BufferPage
BufferPageNew ==
    [buffer |-> Zeros(BlockSize), starting_offsets |-> <<>>, types |-> <<>>,
     current_write_offset |-> 0]

\* BufferPage::add_field
AddField(p, t, value) ==
    LET e == EncodeField(t, value, p.buffer, p.current_write_offset) IN
    [ok |-> e.ok,
     page |-> [buffer |-> e.buffer,
               starting_offsets |-> Append(p.starting_offsets, p.current_write_offset),
               types |-> Append(p.types, t),
               current_write_offset |-> p.current_write_offset + e.size]]

\* BufferPage::assert_field_type: assert_eq!(Some(&expected), types.type_at(index))
AssertFieldType(p, index, t) == index < Len(p.types) /\ p.types[index + 1] = t

\* Variant of mutate_<T> that stores the new value as one more field
MutateField_AsAdd(p, t, value, index) ==
    IF ~AssertFieldType(p, index, t)
    THEN [ok |-> FALSE, page |-> p]
    ELSE AddField(p, t, value)

\* Variant of mutate_<T> that re-encodes at the first field's offset
MutateField_AtFirstOffset(p, t, value, index) ==
    IF ~AssertFieldType(p, index, t)
    THEN [ok |-> FALSE, page |-> p]
    ELSE LET e == EncodeField(t, value, p.buffer, p.starting_offsets[1]) IN
         [ok |-> e.ok, page |-> [p EXCEPT !.buffer = e.buffer]]

\* BufferPage::mutate_<T>: the type assertion, then mutate_field
MutateField(p, t, value, index) ==
    IF ~AssertFieldType(p, index, t)
    THEN [ok |-> FALSE, page |-> p]
    ELSE LET e == EncodeField(t, value, p.buffer, p.starting_offsets[index + 1]) IN
         [ok |-> e.ok, page |-> [p EXCEPT !.buffer = e.buffer]]

\* BufferPage::get_<T>: ok = FALSE is a panic, otherwise value is the field
GetField(p, t, index) ==
    IF ~AssertFieldType(p, index, t)
    THEN [ok |-> FALSE, value |-> <<>>]
    ELSE LET d == DecodeField(t, p.buffer, p.starting_offsets[index + 1]) IN
         [ok |-> d.ok, value |-> d.value]

TypesEncode(types) == [i \in 1..Len(types) |-> TypeTag(types[i])]

\* Variant of the buffer page encoder that puts the types after the offsets
BufferPageEncode_TypesAfterOffsets(buffer, starting_offsets, types) ==
    LET types_at == Len(buffer) - RESERVED_SIZE_FOR_NUMBER_OF_OFFSETS
                        - Len(types) * RESERVED_SIZE_FOR_TYPE
        offsets_at == types_at - Len(starting_offsets) * SIZE_OF_OFFSET
    IN WriteAt(
         WriteAt(
           WriteAt(buffer, offsets_at, StartingOffsetsEncode(starting_offsets)),
           types_at, TypesEncode(types)),
         Len(buffer) - RESERVED_SIZE_FOR_NUMBER_OF_OFFSETS,
         LE16(Len(starting_offsets) % 65536))

\* PageEncoder::encode of the buffer page: types, then offsets, then the count
BufferPageEncode(buffer, starting_offsets, types) ==
    LET offsets_at == Len(buffer) - RESERVED_SIZE_FOR_NUMBER_OF_OFFSETS
                        - Len(starting_offsets) * SIZE_OF_OFFSET
        types_at == offsets_at - Len(types) * RESERVED_SIZE_FOR_TYPE
    IN WriteAt(
         WriteAt(
           WriteAt(buffer, offsets_at, StartingOffsetsEncode(starting_offsets)),
           types_at, TypesEncode(types)),
         Len(buffer) - RESERVED_SIZE_FOR_NUMBER_OF_OFFSETS,
         LE16(Len(starting_offsets) % 65536))

\* BufferPage::finish; ok = FALSE is panic!("empty page") or the usize
\* underflow / slice panic of a directory larger than the buffer
BufferPageFinish(p) ==
    IF Len(p.starting_offsets) = 0
       \/ Len(p.buffer) - RESERVED_SIZE_FOR_NUMBER_OF_OFFSETS
            - Len(p.starting_offsets) * SIZE_OF_OFFSET
            - Len(p.types) * RESERVED_SIZE_FOR_TYPE < 0
    THEN [ok |-> FALSE, page |-> p]
    ELSE [ok |-> TRUE,
          page |-> [p EXCEPT !.buffer =
                       BufferPageEncode(p.buffer, p.starting_offsets, p.types)]]

\* Variant of decode_page without the early return for a count of zero:
\* types.last().unwrap() panics
BufferPageDecode_NoZeroCount(buffer) ==
    LET number_of_offsets ==
            ReadU16(buffer, Len(buffer) - RESERVED_SIZE_FOR_NUMBER_OF_OFFSETS)
        offsets_at == Len(buffer) - RESERVED_SIZE_FOR_NUMBER_OF_OFFSETS
                        - SIZE_OF_OFFSET * number_of_offsets
        types_at == offsets_at - RESERVED_SIZE_FOR_TYPE * number_of_offsets
    IN IF number_of_offsets = 0 \/ types_at < 0
       THEN [ok |-> FALSE, page |-> BufferPageNew]
       ELSE LET starting_offsets ==
                    StartingOffsetsDecode(
                        Slice(buffer, offsets_at,
                              offsets_at + SIZE_OF_OFFSET * number_of_offsets))
                types == [i \in 1..number_of_offsets |-> TypeOfTag(buffer[types_at + i])]
                d == DecodeField(types[number_of_offsets], buffer,
                                 starting_offsets[number_of_offsets])
            IN [ok |-> d.ok /\ \A i \in 1..number_of_offsets : types[i] # "unreachable",
                page |-> [buffer |-> buffer, starting_offsets |-> starting_offsets,
                          types |-> types, current_write_offset |-> d.end_offset]]

\* Variant of decode_page that takes the last field's starting offset, not its
\* end offset, as the write offset
BufferPageDecode_WriteAtLastField(buffer) ==
    LET number_of_offsets ==
            ReadU16(buffer, Len(buffer) - RESERVED_SIZE_FOR_NUMBER_OF_OFFSETS)
        offsets_at == Len(buffer) - RESERVED_SIZE_FOR_NUMBER_OF_OFFSETS
                        - SIZE_OF_OFFSET * number_of_offsets
        types_at == offsets_at - RESERVED_SIZE_FOR_TYPE * number_of_offsets
    IN IF number_of_offsets = 0
       THEN [ok |-> TRUE, page |-> [BufferPageNew EXCEPT !.buffer = buffer]]
       ELSE IF types_at < 0
       THEN [ok |-> FALSE, page |-> BufferPageNew]
       ELSE LET starting_offsets ==
                    StartingOffsetsDecode(
                        Slice(buffer, offsets_at,
                              offsets_at + SIZE_OF_OFFSET * number_of_offsets))
                types == [i \in 1..number_of_offsets |-> TypeOfTag(buffer[types_at + i])]
                d == DecodeField(types[number_of_offsets], buffer,
                                 starting_offsets[number_of_offsets])
            IN [ok |-> d.ok /\ \A i \in 1..number_of_offsets : types[i] # "unreachable",
                page |-> [buffer |-> buffer, starting_offsets |-> starting_offsets,
                          types |-> types,
                          current_write_offset |-> starting_offsets[number_of_offsets]]]

\* PageDecoder::decode_page of the buffer page; ok = FALSE is a panic
BufferPageDecode(buffer) ==
    LET number_of_offsets ==
            ReadU16(buffer, Len(buffer) - RESERVED_SIZE_FOR_NUMBER_OF_OFFSETS)
        offsets_at == Len(buffer) - RESERVED_SIZE_FOR_NUMBER_OF_OFFSETS
                        - SIZE_OF_OFFSET * number_of_offsets
        types_at == offsets_at - RESERVED_SIZE_FOR_TYPE * number_of_offsets
    IN IF number_of_offsets = 0
       THEN [ok |-> TRUE, page |-> [BufferPageNew EXCEPT !.buffer = buffer]]
       ELSE IF types_at < 0
       THEN [ok |-> FALSE, page |-> BufferPageNew]
       ELSE LET starting_offsets ==
                    StartingOffsetsDecode(
                        Slice(buffer, offsets_at,
                              offsets_at + SIZE_OF_OFFSET * number_of_offsets))
                types == [i \in 1..number_of_offsets |-> TypeOfTag(buffer[types_at + i])]
                d == DecodeField(types[number_of_offsets], buffer,
                                 starting_offsets[number_of_offsets])
            IN [ok |-> d.ok /\ \A i \in 1..number_of_offsets : types[i] # "unreachable",
                page |-> [buffer |-> buffer, starting_offsets |-> starting_offsets,
                          types |-> types, current_write_offset |-> d.end_offset]]

\* ----------------------------------------------------------- buffer: Buffer
\* Buffer::new.  fields and contract_ok are bookkeeping of what the client
\* wrote: the typed values field by field, and whether every mutate so far
\* kept the encoded size of the field it replaced.
BufferNew ==
    [page |-> <<>>, block_id |-> <<>>, pins |-> 0, transaction_number |-> -1,
     log_sequence_number |-> 0, fields |-> <<>>, contract_ok |-> TRUE]

IsPinned(f) == f.pins > 0

HasBlockId(f, b) == f.block_id = << b >>

\* the directory of the page does not reach into its payloads
PageFits(p) ==
    p.current_write_offset
        + Len(p.starting_offsets) * (SIZE_OF_OFFSET + RESERVED_SIZE_FOR_TYPE)
        + RESERVED_SIZE_FOR_NUMBER_OF_OFFSETS <= Len(p.buffer)

\* Variant of the guard of Buffer::flush that ignores the transaction number
FlushGuard_AnyPage(f) == f.page # <<>>

\* the condition under which Buffer::flush writes
FlushGuard(f) == f.transaction_number >= 0 /\ f.page # <<>>

\* Buffer::flush on a frame and the log manager / file state it reaches.
\* ok = FALSE: a panic, at panic_at, after the effects recorded here.
BufferFlush(f, lp, cur, lfile, latest, saved, dfile) ==
    LET Logged(unchanged, lf) ==
            [unchanged EXCEPT !.log_flushed = lf.flushed,
                              !.log_page = lf.log_page,
                              !.log_file = lf.log_file,
                              !.last_saved = lf.last_saved]
        Written(logged, pf) ==
            IF ~pf.ok
            THEN [logged EXCEPT !.ok = FALSE, !.panic_at = "page_finish"]
            ELSE [logged EXCEPT
                     !.page_written = TRUE,
                     !.data_file = FileWrite(dfile, f.block_id[1], pf.page.buffer),
                     !.frame = [f EXCEPT !.page = << pf.page >>,
                                         !.transaction_number = -1]]
        Flushed(unchanged, lf) ==
            IF ~lf.ok
            THEN [unchanged EXCEPT !.ok = FALSE, !.panic_at = "log_flush"]
            ELSE Written(Logged(unchanged, lf), BufferPageFinish(f.page[1]))
        Guarded(unchanged) ==
            IF ~FlushGuard(f) THEN unchanged
            ELSE Flushed(unchanged,
                         LogFlush(f.log_sequence_number, lp, cur, lfile, latest, saved))
    IN Guarded([ok |-> TRUE, panic_at |-> "", log_flushed |-> FALSE,
                page_written |-> FALSE, frame |-> f, log_page |-> lp,
                log_file |-> lfile, last_saved |-> saved, data_file |-> dfile])

\* Variant of the failing flush that clears the dirty marker before the write
BufferFlushError_ClearsMarker(f, at, landed, lp, cur, lfile, latest, saved, dfile) ==
    [possible |-> FlushGuard(f),
     frame |-> [f EXCEPT !.transaction_number = -1],
     log_page |-> lp, log_file |-> lfile, last_saved |-> saved,
     data_file |-> dfile, log_flushed |-> FALSE, log_landed |-> FALSE,
     page_landed |-> FALSE]

\* Buffer::flush returning Err: the write inside LogManager::flush fails
\* (at = "log_write") or the write of the page fails (at = "write"); landed:
\* the bytes of the failed write reached the file.  possible = FALSE: the
\* flush does not get to that write.
BufferFlushError(f, at, landed, lp, cur, lfile, latest, saved, dfile) ==
    LET Impossible ==
            [possible |-> FALSE, frame |-> f, log_page |-> lp, log_file |-> lfile,
             last_saved |-> saved, data_file |-> dfile, log_flushed |-> FALSE,
             log_landed |-> FALSE, page_landed |-> FALSE]
        LogWrite(ff) ==
            [Impossible EXCEPT
                !.possible = ff.ok /\ FlushNeeded(f.log_sequence_number, saved),
                !.log_page = ff.log_page,
                !.log_file = IF landed THEN ff.log_file ELSE lfile,
                !.log_landed = landed]
        PageWrite(lf, pf) ==
            [Impossible EXCEPT
                !.possible = lf.ok /\ pf.ok,
                !.frame = [f EXCEPT !.page = << pf.page >>],
                !.log_page = lf.log_page,
                !.log_file = lf.log_file,
                !.last_saved = lf.last_saved,
                !.data_file = IF landed
                              THEN FileWrite(dfile, f.block_id[1], pf.page.buffer)
                              ELSE dfile,
                !.log_flushed = lf.flushed,
                !.log_landed = lf.flushed,
                !.page_landed = landed]
    IN IF ~FlushGuard(f) THEN Impossible
       ELSE IF at = "log_write" THEN LogWrite(ForceFlush(lp, cur, lfile))
       ELSE PageWrite(LogFlush(f.log_sequence_number, lp, cur, lfile, latest, saved),
                      BufferPageFinish(f.page[1]))

\* Variant of assign_to_block that binds the new block id before it flushes
AssignToBlock_BindsFirst(f, b, lp, cur, lfile, latest, saved, dfile) ==
    LET Loaded(fl, d) ==
            IF ~d.ok THEN [fl EXCEPT !.ok = FALSE, !.panic_at = "page_decode"]
            ELSE [fl EXCEPT !.frame = [fl.frame EXCEPT !.page = << d.page >>,
                                                       !.block_id = << b >>,
                                                       !.pins = 0]]
        Assigned(fl) ==
            IF ~fl.ok THEN [fl EXCEPT !.frame = f]
            ELSE Loaded(fl, BufferPageDecode(FileRead(fl.data_file, b)))
    IN Assigned(BufferFlush([f EXCEPT !.block_id = << b >>], lp, cur, lfile,
                            latest, saved, dfile))

\* Buffer::assign_to_block: flush, then read and decode the new block
AssignToBlock(f, b, lp, cur, lfile, latest, saved, dfile) ==
    LET Loaded(fl, d) ==
            IF ~d.ok THEN [fl EXCEPT !.ok = FALSE, !.panic_at = "page_decode"]
            ELSE [fl EXCEPT !.frame = [fl.frame EXCEPT !.page = << d.page >>,
                                                       !.block_id = << b >>,
                                                       !.pins = 0]]
        Assigned(fl) ==
            IF ~fl.ok THEN [fl EXCEPT !.frame = f]
            ELSE Loaded(fl, BufferPageDecode(FileRead(fl.data_file, b)))
    IN Assigned(BufferFlush(f, lp, cur, lfile, latest, saved, dfile))

\* ---------------------------------------------------- buffer: BufferManager
\* Variant of BufferManager::new that builds a pool of two frames
NewPool_TwoFrames == << BufferNew, BufferNew >>

\* BufferManager::new: the pool it builds
NewPool == [i \in 1..PoolFrames |-> BufferNew]

\* Variant of the try_pin loop that shares the first frame when none is free
RECURSIVE PinTarget_ShareFirst(_, _, _)
PinTarget_ShareFirst(pool, b, i) ==
    IF i > Len(pool) THEN [kind |-> "hit", index |-> 1]
    ELSE IF HasBlockId(pool[i], b) THEN [kind |-> "hit", index |-> i]
    ELSE IF ~IsPinned(pool[i]) THEN [kind |-> "assign", index |-> i]
    ELSE PinTarget_ShareFirst(pool, b, i + 1)

\* Variant of the try_pin loop that does not test is_pinned
RECURSIVE PinTarget_IgnorePins(_, _, _)
PinTarget_IgnorePins(pool, b, i) ==
    IF i > Len(pool) THEN [kind |-> "unavailable", index |-> 0]
    ELSE IF HasBlockId(pool[i], b) THEN [kind |-> "hit", index |-> i]
    ELSE [kind |-> "assign", index |-> i]

\* Variant of the try_pin loop that tests is_pinned before has_block_id
RECURSIVE PinTarget_FreeBeforeBound(_, _, _)
PinTarget_FreeBeforeBound(pool, b, i) ==
    IF i > Len(pool) THEN [kind |-> "unavailable", index |-> 0]
    ELSE IF ~IsPinned(pool[i]) THEN [kind |-> "assign", index |-> i]
    ELSE IF HasBlockId(pool[i], b) THEN [kind |-> "hit", index |-> i]
    ELSE PinTarget_FreeBeforeBound(pool, b, i + 1)

\* The loop of BufferManager::try_pin from frame i on: which frame it returns
\* and on which branch
RECURSIVE PinTarget(_, _, _)
PinTarget(pool, b, i) ==
    IF i > Len(pool) THEN [kind |-> "unavailable", index |-> 0]
    ELSE IF HasBlockId(pool[i], b) THEN [kind |-> "hit", index |-> i]
    ELSE IF ~IsPinned(pool[i]) THEN [kind |-> "assign", index |-> i]
    ELSE PinTarget(pool, b, i + 1)

\* The loop of BufferManager::unpin: the frame it unpins, 0 if none
RECURSIVE UnpinTarget(_, _, _)
UnpinTarget(pool, b, i) ==
    IF i > Len(pool) THEN 0
    ELSE IF HasBlockId(pool[i], b) THEN i
    ELSE UnpinTarget(pool, b, i + 1)

\* BufferManager::pin / try_pin
Pin(b) ==
    /\ alive
    /\ \E t \in { PinTarget(buffer_pool, b, 1) } :
       CASE t.kind = "unavailable" ->
              /\ last_op' = [Op("pin", "unavailable") EXCEPT !.block = b]
              /\ handle' = 0
              /\ UNCHANGED << alive, log_file, data_file, log_page,
                              last_saved_log_sequence_number, buffer_pool,
                              available_buffers, expected, durable_history >>
         [] t.kind = "hit" ->
              \E f \in { buffer_pool[t.index] } :
              /\ f.pins < MaxPins
              /\ IF ~IsPinned(f) /\ available_buffers = 0
                 THEN /\ Panic("pin")
                      /\ UNCHANGED << buffer_pool, available_buffers, handle >>
                 ELSE /\ available_buffers' =
                            IF ~IsPinned(f) THEN available_buffers - 1
                            ELSE available_buffers
                      /\ buffer_pool' = [buffer_pool EXCEPT ![t.index].pins = f.pins + 1]
                      /\ handle' = t.index
                      /\ last_op' = [Op("pin", "ok") EXCEPT !.block = b,
                                                           !.frame = t.index]
                      /\ UNCHANGED alive
              /\ UNCHANGED << log_file, data_file, log_page,
                              last_saved_log_sequence_number, expected,
                              durable_history >>
         [] t.kind = "assign" ->
              \E f \in { buffer_pool[t.index] } :
              \E a \in { AssignToBlock(f, b, log_page, current_block_id, log_file,
                                        latest_log_sequence_number,
                                        last_saved_log_sequence_number, data_file) } :
              \E old \in { IF f.block_id = <<>> THEN NoBlock ELSE f.block_id[1] } :
              \E exp \in { IF a.page_written
                            THEN [expected EXCEPT ![old] =
                                    [fields |-> f.fields,
                                     ok |-> f.contract_ok /\ PageFits(f.page[1])]]
                            ELSE expected } :
              \E info \in { [Op("pin", "ok") EXCEPT
                                !.block = b, !.frame = t.index,
                                !.lsn = f.log_sequence_number,
                                !.log_flushed = a.log_flushed,
                                !.page_written = a.page_written,
                                !.written_block =
                                    IF a.page_written THEN old ELSE NoBlock] } :
              /\ log_page' = a.log_page
              /\ log_file' = a.log_file
              /\ last_saved_log_sequence_number' = a.last_saved
              /\ durable_history' = IF a.log_flushed THEN log_history ELSE durable_history
              /\ data_file' = a.data_file
              /\ expected' = exp
              /\ IF a.ok /\ available_buffers > 0
                 THEN /\ buffer_pool' = [buffer_pool EXCEPT ![t.index] =
                             [a.frame EXCEPT !.pins = 1,
                                             !.fields = exp[b].fields,
                                             !.contract_ok = exp[b].ok]]
                      /\ available_buffers' = available_buffers - 1
                      /\ handle' = t.index
                      /\ last_op' = [info EXCEPT !.loaded = TRUE]
                      /\ UNCHANGED alive
                 ELSE /\ alive' = FALSE
                      /\ last_op' = [info EXCEPT !.result = "panic",
                                                 !.panic_at = IF a.ok THEN "available"
                                                              ELSE a.panic_at]
                      /\ UNCHANGED << buffer_pool, available_buffers, handle >>
    /\ UNCHANGED << current_block_id, latest_log_sequence_number, capacity,
                    appended, log_history, written, iterVars, reopens,
                    unflushed_closes >>

\* BufferManager::pin returning Err(BufferPinError::IO): inside
\* Buffer::assign_to_block the flush of the dirty frame fails (at =
\* "log_write" or "write"), or the read of the new block fails after the
\* flush (at = "read").
PinIoError(b, at, landed) ==
    /\ alive
    /\ \E t \in { PinTarget(buffer_pool, b, 1) } :
       \E f \in { buffer_pool[t.index] } :
       \E old \in { IF f.block_id = <<>> THEN NoBlock ELSE f.block_id[1] } :
          /\ t.kind = "assign"
          /\ IF at = "read"
             THEN \E fl \in { BufferFlush(f, log_page, current_block_id, log_file,
                                          latest_log_sequence_number,
                                          last_saved_log_sequence_number,
                                          data_file) } :
                    /\ ~landed
                    /\ fl.ok
                    /\ log_page' = fl.log_page
                    /\ log_file' = fl.log_file
                    /\ last_saved_log_sequence_number' = fl.last_saved
                    /\ durable_history' =
                          IF fl.log_flushed THEN log_history ELSE durable_history
                    /\ data_file' = fl.data_file
                    /\ expected' =
                          IF fl.page_written
                          THEN [expected EXCEPT ![old] =
                                  [fields |-> f.fields,
                                   ok |-> f.contract_ok /\ PageFits(f.page[1])]]
                          ELSE expected
                    /\ buffer_pool' = [buffer_pool EXCEPT ![t.index] = fl.frame]
                    /\ last_op' = [Op("pin", "io_error") EXCEPT
                                      !.block = b, !.frame = t.index,
                                      !.panic_at = at,
                                      !.lsn = f.log_sequence_number,
                                      !.log_flushed = fl.log_flushed,
                                      !.page_written = fl.page_written,
                                      !.written_block =
                                         IF fl.page_written THEN old ELSE NoBlock]
             ELSE \E e \in { BufferFlushError(f, at, landed, log_page,
                                              current_block_id, log_file,
                                              latest_log_sequence_number,
                                              last_saved_log_sequence_number,
                                              data_file) } :
                    /\ e.possible
                    /\ log_page' = e.log_page
                    /\ log_file' = e.log_file
                    /\ last_saved_log_sequence_number' = e.last_saved
                    /\ durable_history' =
                          IF e.log_landed THEN log_history ELSE durable_history
                    /\ data_file' = e.data_file
                    /\ expected' =
                          IF e.page_landed
                          THEN [expected EXCEPT ![old] =
                                  [fields |-> f.fields,
                                   ok |-> f.contract_ok /\ PageFits(f.page[1])]]
                          ELSE expected
                    /\ buffer_pool' = [buffer_pool EXCEPT ![t.index] = e.frame]
                    /\ last_op' = [Op("pin", "io_error") EXCEPT
                                      !.block = b, !.frame = t.index,
                                      !.panic_at = at,
                                      !.lsn = f.log_sequence_number,
                                      !.log_flushed = e.log_flushed]
    /\ handle' = 0
    /\ UNCHANGED << alive, current_block_id, latest_log_sequence_number,
                    available_buffers, capacity, appended, log_history, written,
                    iterVars, reopens, unflushed_closes >>

\* BufferManager::unpin
Unpin(b) ==
    /\ alive
    /\ LET i == UnpinTarget(buffer_pool, b, 1) IN
       IF i = 0
       THEN UNCHANGED << buffer_pool, available_buffers >>
       ELSE LET f == buffer_pool[i] IN
            /\ f.pins > -MaxExtraUnpins
            /\ ~(f.pins - 1 > 0) => available_buffers < capacity + MaxExtraUnpins
            /\ buffer_pool' = [buffer_pool EXCEPT ![i].pins = f.pins - 1]
            /\ available_buffers' =
                  IF ~(f.pins - 1 > 0) THEN available_buffers + 1
                  ELSE available_buffers
    /\ handle' = 0
    /\ last_op' = [Op("unpin", "ok") EXCEPT !.block = b]
    /\ UNCHANGED << alive, log_file, data_file, logVars, logGhost, capacity,
                    expected, iterVars, reopens, unflushed_closes >>

\* the size <T>EncoderDecoder::encode takes for a value
EncodedSize(t, value) ==
    CASE t = "TypeU8" -> U8_SIZE
      [] t = "TypeU16" -> U16_SIZE
      [] OTHER -> BytesNeededForEncoding(value)

\* the client, through the &mut Buffer pin returned: page.add_<T>(value)
PageAdd(t, value) ==
    /\ alive
    /\ handle # 0
    /\ LET f == buffer_pool[handle]
           r == AddField(f.page[1], t, value)
       IN /\ Len(f.fields) < MaxFields
          /\ IF r.ok
             THEN /\ buffer_pool' = [buffer_pool EXCEPT ![handle] =
                        [f EXCEPT !.page = << r.page >>,
                                  !.fields = Append(f.fields,
                                                    [type |-> t, value |-> value])]]
                  /\ last_op' = [Op("add", "ok") EXCEPT !.frame = handle]
                  /\ UNCHANGED alive
             ELSE /\ Panic("add")
                  /\ UNCHANGED buffer_pool
    /\ UNCHANGED << log_file, data_file, logVars, logGhost, available_buffers,
                    capacity, handle, expected, iterVars, reopens, unflushed_closes >>

\* the client: page.mutate_<T>(value, index)
PageMutate(t, value, index) ==
    /\ alive
    /\ handle # 0
    /\ LET f == buffer_pool[handle]
           r == MutateField(f.page[1], t, value, index)
       IN IF r.ok
          THEN /\ buffer_pool' = [buffer_pool EXCEPT ![handle] =
                     [f EXCEPT !.page = << r.page >>,
                               !.fields[index + 1] = [type |-> t, value |-> value],
                               !.contract_ok =
                                   f.contract_ok
                                   /\ EncodedSize(t, value)
                                        = EncodedSize(t, f.fields[index + 1].value)]]
               /\ last_op' = [Op("mutate", "ok") EXCEPT
                                 !.frame = handle, !.index = index]
               /\ UNCHANGED alive
          ELSE /\ Panic("mutate")
               /\ UNCHANGED buffer_pool
    /\ UNCHANGED << log_file, data_file, logVars, logGhost, available_buffers,
                    capacity, handle, expected, iterVars, reopens, unflushed_closes >>

\* Buffer::set_modified
SetModified(transaction_number, log_sequence_number) ==
    /\ alive
    /\ handle # 0
    /\ buffer_pool' = [buffer_pool EXCEPT
          ![handle].transaction_number = transaction_number,
          ![handle].log_sequence_number = log_sequence_number]
    /\ last_op' = [Op("set_modified", "ok") EXCEPT !.frame = handle,
                                                   !.lsn = log_sequence_number]
    /\ UNCHANGED << alive, log_file, data_file, logVars, logGhost,
                    available_buffers, capacity, handle, expected, iterVars,
                    reopens, unflushed_closes >>

\* the client: BufferPage::decode_from(page.finish().to_vec()), keeping the
\* decoded page.  expected and contract_ok record whether the page encoded
\* was within the caller's contract (it fitted, mutations kept sizes).
PageFinishDecode ==
    /\ alive
    /\ handle # 0
    /\ \E f \in { buffer_pool[handle] } :
       \E pf \in { BufferPageFinish(f.page[1]) } :
       \E within \in { f.contract_ok /\ PageFits(f.page[1]) } :
          IF ~pf.ok
          THEN /\ Panic("finish")
               /\ UNCHANGED << buffer_pool, expected >>
          ELSE \E d \in { BufferPageDecode(pf.page.buffer) } :
               /\ expected' = [expected EXCEPT ![f.block_id[1]] =
                                  [fields |-> f.fields, ok |-> within]]
               /\ IF d.ok
                  THEN /\ buffer_pool' = [buffer_pool EXCEPT ![handle] =
                              [f EXCEPT !.page = << d.page >>,
                                        !.contract_ok = within]]
                       /\ last_op' = [Op("decode", "ok") EXCEPT
                                         !.frame = handle, !.block = f.block_id[1],
                                         !.value = pf.page.buffer,
                                         !.contract = f.contract_ok]
                       /\ UNCHANGED alive
                  ELSE /\ alive' = FALSE
                       /\ last_op' = [Op("decode", "panic") EXCEPT
                                         !.frame = handle, !.block = f.block_id[1],
                                         !.value = pf.page.buffer,
                                         !.contract = f.contract_ok]
                       /\ UNCHANGED buffer_pool
    /\ UNCHANGED << log_file, data_file, logVars, logGhost, available_buffers,
                    capacity, handle, iterVars, reopens, unflushed_closes >>

\* the client: page.get_<T>(index)
PageGet(t, index) ==
    /\ alive
    /\ handle # 0
    /\ \E r \in { GetField(buffer_pool[handle].page[1], t, index) } :
          IF r.ok
          THEN /\ last_op' = [Op("get", "some") EXCEPT
                                 !.frame = handle, !.value = r.value,
                                 !.index = index]
               /\ UNCHANGED alive
          ELSE /\ alive' = FALSE
               /\ last_op' = [Op("get", "panic") EXCEPT
                                 !.frame = handle, !.index = index,
                                 !.panic_at =
                                    IF AssertFieldType(buffer_pool[handle].page[1],
                                                       index, t)
                                    THEN "decode" ELSE "assert_field_type"]
    /\ UNCHANGED << log_file, data_file, logVars, logGhost, poolVars, iterVars,
                    reopens, unflushed_closes >>

\* ------------------------------------------------------------------ reopen
\* The managers are dropped (or the process has died) and FileManager,
\* LogManager::new and BufferManager::new run again on the same directory.
Reopen ==
    /\ reopens < MaxReopens
    /\ reopens' = reopens + 1
    /\ unflushed_closes' =
          IF log_history # durable_history THEN unflushed_closes + 1
          ELSE unflushed_closes
    /\ LET number_of_blocks == NumberOfBlocks(log_file)
           ab == AppendEmptyBlock(log_file)
           d == LogPageDecode(FileRead(log_file, number_of_blocks - 1))
       IN IF number_of_blocks = 0
          THEN /\ log_file' = ab.file
               /\ log_page' = LogPageNew
               /\ current_block_id' = ab.block
               /\ alive' = TRUE
               /\ last_op' = Op("reopen", "ok")
          ELSE /\ log_file' = log_file
               /\ log_page' = d.page
               /\ current_block_id' = number_of_blocks - 1
               /\ alive' = d.ok
               /\ last_op' = Op("reopen", IF d.ok THEN "ok" ELSE "panic")
    /\ latest_log_sequence_number' = 0
    /\ last_saved_log_sequence_number' = 0
    /\ buffer_pool' = NewPool
    /\ available_buffers' = capacity
    /\ handle' = 0
    /\ iterator' = <<>>
    /\ yielded' = <<>>
    /\ iter_expect' = [history |-> <<>>, written |-> <<>>]
    /\ appended' = <<>>
    /\ log_history' = durable_history
    /\ UNCHANGED << data_file, capacity, durable_history, written, expected >>

\* ------------------------------------------- FileManager called directly
\* The directory holds the log file and one data file.
FileNames == { "log", "data" }

FileOf(name) == IF name = "log" THEN log_file ELSE data_file

FileOfNext(name) == IF name = "log" THEN log_file' ELSE data_file'

FmUnchanged ==
    UNCHANGED << alive, logVars, logGhost, poolVars, iterVars, reopens,
                 unflushed_closes >>

\* FileManager::write(block_id, data)
FmWrite(name, n, data) ==
    /\ alive
    /\ log_file' = IF name = "log" THEN FileWrite(log_file, n, data) ELSE log_file
    /\ data_file' = IF name = "data" THEN FileWrite(data_file, n, data)
                    ELSE data_file
    /\ last_op' = [Op("write", "ok") EXCEPT
                      !.file = name, !.block = n, !.value = data]
    /\ FmUnchanged

\* FileManager::read(block_id): the buffer handed to the page decoder
FmRead(name, n) ==
    /\ alive
    /\ last_op' = [Op("read", "ok") EXCEPT
                      !.file = name, !.block = n,
                      !.value = FileRead(FileOf(name), n)]
    /\ UNCHANGED << log_file, data_file >>
    /\ FmUnchanged

\* FileManager::append_empty_block(file_name)
FmAppendEmptyBlock(name) ==
    /\ alive
    /\ NumberOfBlocks(FileOf(name)) <= MaxBlockNumber
    /\ \E ab \in { AppendEmptyBlock(FileOf(name)) } :
          /\ log_file' = IF name = "log" THEN ab.file ELSE log_file
          /\ data_file' = IF name = "data" THEN ab.file ELSE data_file
          /\ last_op' = [Op("append_empty_block", "ok") EXCEPT
                            !.file = name, !.block = ab.block]
    /\ FmUnchanged

\* FileManager::number_of_blocks(file_name)
FmNumberOfBlocks(name) ==
    /\ alive
    /\ last_op' = [Op("number_of_blocks", "ok") EXCEPT
                      !.file = name, !.count = NumberOfBlocks(FileOf(name))]
    /\ UNCHANGED << log_file, data_file >>
    /\ FmUnchanged

\* ---------------------------------------------------------- specifications
PinnedFrames == { i \in 1..Len(buffer_pool) : buffer_pool[i].pins > 0 }

InitWith(caps) ==
    /\ alive = TRUE
    /\ log_file = Zeros(BlockSize)
    /\ data_file = <<>>
    /\ log_page = LogPageNew
    /\ current_block_id = 0
    /\ latest_log_sequence_number = 0
    /\ last_saved_log_sequence_number = 0
    /\ capacity \in caps
    /\ buffer_pool = NewPool
    /\ available_buffers = capacity
    /\ handle = 0
    /\ iterator = <<>>
    /\ last_op = NoOp
    /\ appended = <<>>
    /\ log_history = <<>>
    /\ durable_history = <<>>
    /\ written = <<>>
    /\ reopens = 0
    /\ unflushed_closes = 0
    /\ expected = [b \in DataBlocks |-> [fields |-> <<>>, ok |-> TRUE]]
    /\ yielded = <<>>
    /\ iter_expect = [history |-> <<>>, written |-> <<>>]

\* The buffer pool over the log manager
PoolRecords == { <<7>> }
PoolFields == { [type |-> "TypeU8", value |-> <<250>>] }

Init == InitWith(Capacities)

Next ==
    \/ \E rec \in PoolRecords : Len(written) < MaxPoolAppends /\ LmAppend(rec)
    \/ \E lsn \in LsnInputs : LmFlush(lsn)
    \/ \E b \in DataBlocks : Pin(b)
    \/ \E b \in DataBlocks : Unpin(b)
    \/ \E f \in PoolFields :
          /\ handle # 0
          /\ buffer_pool[handle].fields = <<>>
          /\ PageAdd(f.type, f.value)
    \/ \E txn \in TxnInputs, lsn \in LsnInputs : SetModified(txn, lsn)

Spec == Init /\ [][Next]_vars

\* The log manager with its backward iterator, across reopens
InitLog == InitWith({1})

NextLog ==
    \/ \E rec \in Records : LmAppend(rec)
    \/ \E lsn \in {0} : LmFlush(lsn)
    \/ LmBackwardIterator
    \/ IterRecord
    \/ Reopen

SpecLog == InitLog /\ [][NextLog]_vars

\* One page, held through a pin of block 0: typed fields added, mutated,
\* read, and the page encoded and decoded again
PageFields ==
    { [type |-> "TypeU8", value |-> <<250>>],
      [type |-> "TypeU16", value |-> <<513>>],
      [type |-> "TypeBytes", value |-> <<5>>],
      [type |-> "TypeString", value |-> <<104>>],
      [type |-> "TypeString", value |-> <<106>>],
      [type |-> "TypeString", value |-> <<104, 105>>] }

NextPage ==
    \/ handle = 0 /\ Pin(0)
    \/ \E f \in PageFields : PageAdd(f.type, f.value)
    \/ \E f \in PageFields, index \in 0..(MaxFields - 1) :
          PageMutate(f.type, f.value, index)
    \/ PageFinishDecode
    \/ \E t \in { f.type : f \in PageFields }, index \in 0..MaxFields :
          PageGet(t, index)

InitPage == InitWith({1})

SpecPage == InitPage /\ [][NextPage]_vars

\* The log manager alone, with file I/O that can fail
NextIo ==
    \/ \E rec \in Records : LmAppend(rec)
    \/ \E lsn \in LsnInputs : LmFlush(lsn)
    \/ LmBackwardIterator
    \/ \E rec \in Records, at \in IoFailures, landed \in BOOLEAN :
          LmAppendIoError(rec, at, landed)
    \/ \E lsn \in LsnInputs, landed \in BOOLEAN : LmFlushIoError(lsn, landed)
    \/ \E at \in IoFailures, landed \in BOOLEAN : LmBackwardIteratorIoError(at, landed)

SpecIo == InitLog /\ [][NextIo]_vars

\* The file manager called directly on the two files, and then the pool
\* pinning a block of the data file
FullBlock == [i \in 1..BlockSize |-> 1]
ShortData == << 9, 9, 9 >>
FileData == { FullBlock, ShortData }
BlockNumbers == 0..MaxBlockNumber

NextFile ==
    \/ \E name \in FileNames, n \in BlockNumbers, data \in FileData :
          /\ handle = 0
          /\ data = ShortData => name = "data"
          /\ FmWrite(name, n, data)
    \/ \E name \in FileNames, n \in 0..(MaxBlockNumber + 1) :
          handle = 0 /\ FmRead(name, n)
    \/ \E name \in FileNames : handle = 0 /\ FmAppendEmptyBlock(name)
    \/ \E name \in FileNames : handle = 0 /\ FmNumberOfBlocks(name)
    \/ \E b \in DataBlocks : handle = 0 /\ Pin(b)
    \/ \E f \in { g \in PageFields : g.type \in { "TypeU8", "TypeBytes" } } :
          handle # 0 /\ PageAdd(f.type, f.value)

SpecFile == InitLog /\ [][NextFile]_vars

\* One frame, evicted and reloaded, with the client writing typed fields
\* into block 0 and pinning block 1 to evict it
EvictFields ==
    { [type |-> "TypeU8", value |-> <<250>>],
      [type |-> "TypeU16", value |-> <<513>>],
      [type |-> "TypeBytes", value |-> <<5>>],
      [type |-> "TypeBytes", value |-> <<5, 6>>] }

InitEvict == InitWith({1})

ClientHolds(b) == handle # 0 /\ HasBlockId(buffer_pool[handle], b)

NextEvict ==
    \/ \E rec \in PoolRecords : written = <<>> /\ LmAppend(rec)
    \/ \E b \in DataBlocks : PinnedFrames = {} /\ Pin(b)
    \/ \E b \in DataBlocks : PinnedFrames # {} /\ Unpin(b)
    \/ \E f \in EvictFields : ClientHolds(0) /\ PageAdd(f.type, f.value)
    \/ \E f \in EvictFields, index \in 0..(MaxFields - 1) :
          ClientHolds(0) /\ PageMutate(f.type, f.value, index)
    \/ \E txn \in TxnInputs : ClientHolds(0) /\ SetModified(txn, 0)

SpecEvict == InitEvict /\ [][NextEvict]_vars

\* One frame, evicted and reloaded, over a FileManager whose I/O can fail
PinIoFields ==
    { [type |-> "TypeU8", value |-> <<250>>],
      [type |-> "TypeBytes", value |-> <<5, 6>>] }

NextPinIo ==
    \/ \E rec \in PoolRecords : written = <<>> /\ LmAppend(rec)
    \/ \E b \in DataBlocks : PinnedFrames = {} /\ Pin(b)
    \/ \E b \in DataBlocks : PinnedFrames # {} /\ Unpin(b)
    \/ \E f \in PinIoFields : ClientHolds(0) /\ PageAdd(f.type, f.value)
    \/ \E txn \in TxnInputs : ClientHolds(0) /\ SetModified(txn, 0)
    \/ \E b \in DataBlocks, at \in { "log_write", "write", "read" },
          landed \in BOOLEAN :
          PinnedFrames = {} /\ PinIoError(b, at, landed)

SpecPinIo == InitEvict /\ [][NextPinIo]_vars

\* ------------------------------------------- the byte-string codec alone
\* A caller of the codec allocates the destination slice
CodecDestination(destination) ==
    /\ alive
    /\ last_op.op = "new"
    /\ last_op' = [Op("destination", "ok") EXCEPT !.value = destination]
    /\ UNCHANGED << alive, log_file, data_file, logVars, logGhost, poolVars,
                    iterVars, reopens, unflushed_closes >>

\* BytesEncoderDecoder.encode(source, destination, off) on the slice the
\* caller holds; value is the slice after the call, count the size returned
CodecEncode(source, off) ==
    /\ alive
    /\ last_op.op \in { "destination", "encode", "decode" }
    /\ last_op.encodes < MaxEncodes
    /\ \E e \in { BytesEncode(source, last_op.value, off) } :
          /\ alive' = e.ok
          /\ last_op' = [Op("encode", IF e.ok THEN "ok" ELSE "panic") EXCEPT
                            !.value = e.buffer, !.source = source,
                            !.index = off, !.count = e.size,
                            !.encodes = last_op.encodes + 1]
    /\ UNCHANGED << log_file, data_file, logVars, logGhost, poolVars,
                    iterVars, reopens, unflushed_closes >>

\* BytesEncoderDecoder.decode(encoded, off) on the slice the caller holds;
\* source is the payload returned, count the end offset returned
CodecDecode(off) ==
    /\ alive
    /\ last_op.op \in { "encode", "decode" }
    /\ \E d \in { BytesDecode(last_op.value, off) } :
          /\ alive' = d.ok
          /\ last_op' = [Op("decode", IF d.ok THEN "ok" ELSE "panic") EXCEPT
                            !.value = last_op.value, !.source = d.value,
                            !.index = off, !.count = d.end_offset,
                            !.encodes = last_op.encodes]
    /\ UNCHANGED << log_file, data_file, logVars, logGhost, poolVars,
                    iterVars, reopens, unflushed_closes >>

\* Payloads of every length up to MaxPayload, and the two lengths around the
\* largest one a u16 length prefix can record
SmallPayloads == { [i \in 1..n |-> 7 + i] : n \in 0..MaxPayload }
LongPayloads == { [i \in 1..n |-> 5] : n \in { U16_MAX, U16_MAX + 1 } }
Destinations ==
    { [i \in 1..n |-> 170] : n \in (0..MaxDestination) \cup { U16_MAX + 3 } }

NextCodec ==
    \/ /\ last_op.op = "new"
       /\ \E destination \in Destinations : CodecDestination(destination)
    \/ /\ Len(last_op.value) <= MaxDestination
       /\ \E source \in SmallPayloads, off \in 0..(MaxDestination + 1) :
             CodecEncode(source, off)
    \/ /\ last_op.op = "destination"
       /\ \E source \in LongPayloads, off \in { 0, 1 } : CodecEncode(source, off)
    \/ \E off \in 0..(MaxDestination + 1) :
          /\ Len(last_op.value) > MaxDestination
                => last_op.op = "encode" /\ off = last_op.index
          /\ CodecDecode(off)

SpecCodec == InitLog /\ [][NextCodec]_vars

\* ------------------------------------------------------ the LogPage alone
\* LogPage::add called on the page directly; value is the record given and
\* count the number of adds the page has refused so far
LpAdd(rec) ==
    /\ alive
    /\ \E r \in { LogPageTryAdd(log_page, rec) } :
          /\ ~r.ok => last_op.count < MaxAppends
          /\ log_page' = r.page
          /\ last_op' = [Op("page_add", IF r.ok THEN "ok" ELSE "refused") EXCEPT
                            !.value = rec,
                            !.count = IF r.ok THEN last_op.count
                                      ELSE last_op.count + 1]
    /\ UNCHANGED << alive, log_file, data_file, current_block_id,
                    latest_log_sequence_number, last_saved_log_sequence_number,
                    logGhost, poolVars, iterVars, reopens, unflushed_closes >>

\* LogPage::decode_from(page.finish().to_vec()), keeping the decoded page
LpFinishDecode ==
    /\ alive
    /\ \E f \in { LogPageFinish(log_page) } :
       \E d \in { LogPageDecode(f.page.buffer) } :
          /\ alive' = (f.ok /\ d.ok)
          /\ log_page' = IF f.ok /\ d.ok THEN d.page ELSE log_page
          /\ last_op' = [Op("page_decode", IF f.ok /\ d.ok THEN "ok" ELSE "panic")
                            EXCEPT !.count = last_op.count]
    /\ UNCHANGED << log_file, data_file, current_block_id,
                    latest_log_sequence_number, last_saved_log_sequence_number,
                    logGhost, poolVars, iterVars, reopens, unflushed_closes >>

NextLogPage ==
    \/ \E rec \in Records \cup { <<>>, << 4, 5, 6 >> } : LpAdd(rec)
    \/ LpFinishDecode

SpecLogPage == InitLog /\ [][NextLogPage]_vars

\* ------------------------------------------------------------------ claims
Resident(b) == \E i \in 1..Len(buffer_pool) : HasBlockId(buffer_pool[i], b)

\* what pin does in the state it is called in
PinOutcome(b) == PinTarget(buffer_pool, b, 1).kind

\* the records of a log block as they are on disk, oldest first
DiskRecords(block) ==
    LET buffer == FileRead(log_file, block)
        n == ReadU16(buffer, Len(buffer) - RESERVED_SIZE_FOR_NUMBER_OF_OFFSETS)
        at == Len(buffer) - RESERVED_SIZE_FOR_NUMBER_OF_OFFSETS - SIZE_OF_OFFSET * n
    IN [i \in 1..n |->
          BytesDecode(buffer, ReadU32(buffer, at + (i - 1) * SIZE_OF_OFFSET)).value]

\* the record this LogManager appended with LSN k is in the log file
RecordOnDisk(k) ==
    LET a == appended[k]
        on_disk == DiskRecords(a.block)
    IN a.slot <= Len(on_disk) /\ on_disk[a.slot] = a.rec

\* the last call was a pin that wrote a dirty frame back
DirtyWrite == last_op.op = "pin" /\ last_op.page_written

C2_WalRecordsOnDisk ==
    DirtyWrite =>
        \A k \in 1..Len(appended) : k <= last_op.lsn => RecordOnDisk(k)

C2_Witness ==
    /\ DirtyWrite
    /\ last_op.log_flushed
    /\ last_op.lsn >= 2
    /\ Len(appended) >= 2

\* C3: available equals capacity minus the number of frames with pins > 0.
C3_PinAccounting ==
    available_buffers = capacity - Cardinality(PinnedFrames)

\* C4: pin fails with Unavailable only when no buffer is available: a pool of
\* capacity K pins K distinct blocks at the same time.
C4_UnavailableOnlyWhenFull ==
    (last_op.op = "pin" /\ last_op.result = "unavailable") => available_buffers = 0

\* C5: when every frame is pinned and the block is not resident, pin fails
\* with Unavailable and changes no frame, no counter and no file.
C5_UnavailableLeavesState ==
    [][\A b \in DataBlocks :
          (/\ alive
           /\ \A i \in 1..Len(buffer_pool) : IsPinned(buffer_pool[i])
           /\ ~Resident(b)
           /\ last_op'.op = "pin" /\ last_op'.block = b)
          => /\ last_op'.result = "unavailable"
             /\ UNCHANGED << buffer_pool, available_buffers, log_file, data_file,
                             logVars >>]_vars

C5_Witness ==
    /\ last_op.op = "pin" /\ last_op.result = "unavailable"
    /\ \E i \in 1..Len(buffer_pool) :
          buffer_pool[i].transaction_number >= 0 /\ buffer_pool[i].pins = 2

\* C6: a pin or unpin call never rebinds a frame that is pinned, nor changes
\* its page: a frame is reassigned only at pin count <= 0.
C6_PinnedNeverReassigned ==
    [][\A i \in 1..Len(buffer_pool) :
          (/\ last_op'.op \in {"pin", "unpin"}
           /\ IsPinned(buffer_pool[i]))
          => /\ buffer_pool'[i].block_id = buffer_pool[i].block_id
             /\ buffer_pool'[i].page = buffer_pool[i].page]_vars

C6_Witness ==
    /\ last_op.op = "pin" /\ last_op.result = "unavailable"
    /\ \E i \in 1..Len(buffer_pool) :
          IsPinned(buffer_pool[i]) /\ buffer_pool[i].fields # <<>>

\* C7: every frame's pin count is >= 0.
C7_PinsNonNegative ==
    \A i \in 1..Len(buffer_pool) : buffer_pool[i].pins >= 0

\* the page of frame f reads back, field by field, what the client wrote
PageShows(f) ==
    /\ Len(f.page[1].types) = Len(f.fields)
    /\ \A i \in 1..Len(f.fields) :
          GetField(f.page[1], f.fields[i].type, i - 1)
              = [ok |-> TRUE, value |-> f.fields[i].value]

\* the last call was a pin that read its block from disk, or died decoding it
PinRead == last_op.op = "pin" /\ (last_op.loaded \/ last_op.panic_at = "page_decode")

\* C8 (as claimed): a pin that reloads a block whose frame was modified,
\* marked and evicted yields a page whose get_T(i) returns, for every i, the
\* value the client last wrote.
C8_ReloadReturnsWritten ==
    PinRead => last_op.loaded /\ PageShows(buffer_pool[last_op.frame])

\* C8 (amended): the same, provided the page written back held its payloads
\* and its directory within the block and every mutate_T kept the encoded
\* size of the field it replaced.
C8_ReloadReturnsWrittenIfFits ==
    (PinRead /\ expected[last_op.block].ok)
        => last_op.loaded /\ PageShows(buffer_pool[last_op.frame])

C8_Witness ==
    /\ last_op.op = "pin" /\ last_op.loaded
    /\ expected[last_op.block].ok
    /\ Len(buffer_pool[last_op.frame].fields) = 2
    /\ buffer_pool[last_op.frame].fields[2] = [type |-> "TypeBytes", value |-> <<5>>]
    /\ buffer_pool[last_op.frame].fields[1] = [type |-> "TypeU8", value |-> <<250>>]

IsPrefix(s, t) == Len(s) <= Len(t) /\ \A i \in 1..Len(s) : s[i] = t[i]

\* the last call was record() and it returned None
IteratorEnded == last_op.op = "record" /\ last_op.result = "none"

\* C9: after appends r1 .. rN the backward iterator yields rN .. r1, each
\* once, and then returns None.
C9_BackwardOrder ==
    (reopens = 0 /\ iterator # <<>>) =>
        /\ ~(last_op.op = "record" /\ last_op.result = "panic")
        /\ IsPrefix(yielded, Reverse(iter_expect.written))
        /\ IteratorEnded => yielded = Reverse(iter_expect.written)

C9_Witness ==
    /\ reopens = 0
    /\ IteratorEnded
    /\ Len(yielded) = 4
    /\ current_block_id >= 1

\* C10 (as claimed): a LogManager reopened on the file of a dropped one
\* attaches to the last block, and its iterator yields every record appended
\* after the reopen and then every record appended before the close.
C10_RestartYieldsAll ==
    /\ (last_op.op = "reopen" /\ written # <<>>) =>
          last_op.result = "ok" /\ current_block_id = NumberOfBlocks(log_file) - 1
    /\ (reopens >= 1 /\ iterator # <<>>) =>
          /\ ~(last_op.op = "record" /\ last_op.result = "panic")
          /\ IsPrefix(yielded, Reverse(iter_expect.written))
          /\ IteratorEnded => yielded = Reverse(iter_expect.written)

\* C10 (amended): the same, provided every LogManager was dropped with no
\* append since its last force-flush.
C10_RestartYieldsFlushed ==
    unflushed_closes = 0 =>
        /\ (last_op.op = "reopen" /\ written # <<>>) =>
              last_op.result = "ok" /\ current_block_id = NumberOfBlocks(log_file) - 1
        /\ (reopens >= 1 /\ iterator # <<>>) =>
              /\ ~(last_op.op = "record" /\ last_op.result = "panic")
              /\ IsPrefix(yielded, Reverse(iter_expect.written))
              /\ IteratorEnded => yielded = Reverse(iter_expect.written)

C10_Witness ==
    /\ reopens = 1 /\ unflushed_closes = 0
    /\ IteratorEnded
    /\ Len(yielded) = 4
    /\ latest_log_sequence_number = 2
    /\ current_block_id >= 1

\* the records this LogManager appended with LSN <= last_saved_lsn
SavedRecords ==
    [k \in 1..Min(last_saved_log_sequence_number, Len(appended)) |-> appended[k].rec]

IsSuffix(s, t) ==
    Len(s) <= Len(t) /\ \A i \in 1..Len(s) : s[i] = t[Len(t) - Len(s) + i]

\* C11: the records with LSN <= last_saved_lsn survive abandoning the
\* LogManager: they are the newest records of the log on disk, a new
\* LogManager opens on a log holding such records, and its backward iterator
\* yields the whole log on disk in reverse append order.
C11_SavedRecordsDurable ==
    /\ IsSuffix(SavedRecords, durable_history)
    /\ (last_op.op = "reopen" /\ durable_history # <<>>) => last_op.result = "ok"
    /\ (reopens >= 1 /\ IteratorEnded) => yielded = Reverse(iter_expect.history)

\* C12: last_saved_lsn <= latest_lsn in every state, also after calls that
\* failed with an I/O error.
C12_LastSavedAtMostLatest ==
    last_saved_log_sequence_number <= latest_log_sequence_number

C12_Witness ==
    /\ last_op.result = "io_error"
    /\ last_op.op = "append" /\ last_op.panic_at = "append_empty_block"
    /\ last_saved_log_sequence_number = latest_log_sequence_number
    /\ latest_log_sequence_number >= 2

\* C13: a successful append increments latest_lsn by one and returns the new
\* value, so the k-th record appended has LSN k; an append that failed with
\* an I/O error adds no record and leaves latest_lsn alone.
C13_AppendReturnsLsn ==
    /\ Len(appended) = latest_log_sequence_number
    /\ (last_op.op = "append" /\ last_op.result = "ok")
          => last_op.value = << latest_log_sequence_number >>

\* flush(lsn) called in the current state, and called again right after
FlushOnce(lsn) ==
    LogFlush(lsn, log_page, current_block_id, log_file,
             latest_log_sequence_number, last_saved_log_sequence_number)

FlushTwice(lsn) ==
    LogFlush(lsn, FlushOnce(lsn).log_page, current_block_id, FlushOnce(lsn).log_file,
             latest_log_sequence_number, FlushOnce(lsn).last_saved)

\* C14: in every state, flush(lsn) writes the current log page to its block
\* and sets last_saved_lsn = latest_lsn exactly when lsn >= last_saved_lsn,
\* does nothing otherwise, and a second flush(lsn) changes nothing more.
C14_FlushConditionalIdempotent ==
    alive =>
      \A lsn \in LsnInputs :
        /\ FlushOnce(lsn).ok
        /\ IF lsn >= last_saved_log_sequence_number
           THEN /\ FlushOnce(lsn).last_saved = latest_log_sequence_number
                /\ FileRead(FlushOnce(lsn).log_file, current_block_id)
                      = FlushOnce(lsn).log_page.buffer
           ELSE /\ FlushOnce(lsn).last_saved = last_saved_log_sequence_number
                /\ FlushOnce(lsn).log_file = log_file
                /\ FlushOnce(lsn).log_page = log_page
        /\ FlushTwice(lsn) = [FlushOnce(lsn) EXCEPT !.flushed = FlushTwice(lsn).flushed]

\* the free region of a log page against the room a record takes
FreeRegionHolds(p, rec) ==
    Len(p.buffer) - p.current_write_offset - 4 * Len(p.starting_offsets) - 2
        >= 2 + Len(rec) + 4

\* C15: LogPage.add returns true (the append stores the record in the current
\* page, at current_write_offset) if and only if buffer length -
\* current_write_offset - 4 * records - 2 >= 2 + record length + 4.
C15_AddIffFreeRegion ==
    [][\A rec \in Records :
          (/\ last_op'.op = "append" /\ last_op'.result = "ok"
           /\ written' = Append(written, rec))
          => (FreeRegionHolds(log_page, rec)
                <=> /\ current_block_id' = current_block_id
                    /\ log_page'.starting_offsets =
                          Append(log_page.starting_offsets,
                                 log_page.current_write_offset))]_vars

C15_Witness ==
    /\ last_op.op = "append" /\ last_op.result = "ok"
    /\ reopens = 1
    /\ Len(log_page.starting_offsets) = 2
    /\ log_page.current_write_offset + 4 * Len(log_page.starting_offsets) + 2
          = Len(log_page.buffer)

\* the last call encoded the page and decoded it again
Decoded == last_op.op = "decode"

HeldPage == buffer_pool[handle].page[1]

\* C17: after every add_T and every mutate_T the page has as many starting
\* offsets and as many types as fields were added, and a mutate_T leaves the
\* types and the starting offsets as they were.
C17_DirectoryConsistent ==
    [][(last_op'.op \in { "add", "mutate" } /\ last_op'.result = "ok")
          => /\ Len(HeldPage'.starting_offsets) = Len(buffer_pool'[handle'].fields)
             /\ Len(HeldPage'.types) = Len(buffer_pool'[handle'].fields)
             /\ last_op'.op = "mutate"
                   => /\ HeldPage'.types = HeldPage.types
                      /\ HeldPage'.starting_offsets = HeldPage.starting_offsets
                      /\ Len(buffer_pool'[handle'].fields)
                            = Len(buffer_pool[handle].fields)]_vars

C17_Witness ==
    /\ last_op.op = "mutate" /\ last_op.result = "ok"
    /\ Len(buffer_pool[handle].fields) = 2
    /\ ~buffer_pool[handle].contract_ok
    /\ buffer_pool[handle].fields[1].type = "TypeString"

\* where add_T put field i of the fields added: after the fields before it
RECURSIVE FieldOffset(_, _)
FieldOffset(fields, i) ==
    IF i = 1 THEN 0
    ELSE FieldOffset(fields, i - 1)
            + EncodedSize(fields[i - 1].type, fields[i - 1].value)

\* the bytes finish produced hold the count at block_size - 2, the type
\* bytes from types_at on and the u32 starting offsets from offsets_at on
LayoutIs(bytes, fields, types_at, offsets_at) ==
    /\ ReadU16(bytes, Len(bytes) - 2) = Len(fields)
    /\ \A i \in 1..Len(fields) :
          /\ bytes[types_at + i] = TypeTag(fields[i].type)
          /\ ReadU32(bytes, offsets_at + 4 * (i - 1)) = FieldOffset(fields, i)

C19_GetOutOfRangeIsNone ==
    (last_op.op = "get" /\ last_op.index >= Len(HeldPage.types)) =>
        last_op.result = "none"

\* the field at index as the page reads it, by the type the page holds for it
FieldAt(p, index) == GetField(p, p.types[index + 1], index)

\* the value the mutate_T step recorded in last_op' was given
MutatedTo == buffer_pool'[handle'].fields[last_op'.index + 1].value

\* the mutate_T step recorded in last_op' replaced a value by one of the same
\* encoded size
EqualLengthMutation ==
    /\ last_op'.op = "mutate" /\ last_op'.result = "ok"
    /\ FieldAt(HeldPage, last_op'.index).ok
    /\ EncodedSize(HeldPage.types[last_op'.index + 1], MutatedTo)
          = EncodedSize(HeldPage.types[last_op'.index + 1],
                        FieldAt(HeldPage, last_op'.index).value)

\* the step made get_T(i) return v and left get of every other index, the
\* starting offsets, the types and current_write_offset as they were
MutationIsolated ==
    /\ FieldAt(HeldPage', last_op'.index) = [ok |-> TRUE, value |-> MutatedTo]
    /\ \A j \in 0..(Len(HeldPage.types) - 1) :
          j # last_op'.index => FieldAt(HeldPage', j) = FieldAt(HeldPage, j)
    /\ HeldPage'.starting_offsets = HeldPage.starting_offsets
    /\ HeldPage'.types = HeldPage.types
    /\ HeldPage'.current_write_offset = HeldPage.current_write_offset

\* C20 (as claimed): on any page, mutate_T(v, i) with a value of the same
\* encoded size as the one it replaces makes get_T(i) return v and leaves get
\* of every other index, the starting offsets, the types and
\* current_write_offset unchanged.
C20_EqualLengthMutationIsolated ==
    [][EqualLengthMutation => MutationIsolated]_vars

\* C20 (amended): the same, on a page whose earlier mutations all kept the
\* encoded size and whose fields and directory fitted the block whenever it
\* was encoded.
C20_IsolatedWithinContract ==
    [][(EqualLengthMutation /\ buffer_pool[handle].contract_ok)
          => MutationIsolated]_vars

C20_Witness ==
    /\ last_op.op = "mutate" /\ last_op.result = "ok" /\ last_op.index = 1
    /\ \E b \in DataBlocks :
          /\ expected[b].ok
          /\ expected[b].fields =
                << [type |-> "TypeU8", value |-> <<250>>],
                   [type |-> "TypeString", value |-> <<104>>] >>
    /\ buffer_pool[handle].contract_ok
    /\ buffer_pool[handle].fields =
          << [type |-> "TypeU8", value |-> <<250>>],
             [type |-> "TypeString", value |-> <<106>>] >>
    /\ FieldAt(HeldPage, 0).value = <<250>>
    /\ FieldAt(HeldPage, 1).value = <<106>>

\* every block a client can name in the two files, one past the last included
AllBlocks == 0..(MaxBlockNumber + 1)

\* C21: after write(b, data) of a block_size buffer, read(b) returns exactly
\* data; a write leaves what read returns for every other block of the file,
\* and the other file, unchanged; and read, number_of_blocks and
\* append_empty_block leave every block the file has as it was, so the data
\* stays until the next write to b.
C21_WriteReadIsolated ==
    [][/\ (last_op'.op = "write" /\ Len(last_op'.value) = BlockSize)
             => FileRead(FileOfNext(last_op'.file), last_op'.block) = last_op'.value
       /\ last_op'.op = "write"
             => /\ \A m \in AllBlocks \ { last_op'.block } :
                      FileRead(FileOfNext(last_op'.file), m)
                         = FileRead(FileOf(last_op'.file), m)
                /\ \A other \in FileNames \ { last_op'.file } :
                      FileOfNext(other) = FileOf(other)
       /\ last_op'.op \in { "read", "number_of_blocks", "append_empty_block" }
             => \A name \in FileNames :
                   \A m \in 0..(NumberOfBlocks(FileOf(name)) - 1) :
                      FileRead(FileOfNext(name), m) = FileRead(FileOf(name), m)
      ]_vars

C21_Witness ==
    /\ last_op.op = "write" /\ last_op.file = "data" /\ last_op.block = 0
    /\ last_op.value = FullBlock
    /\ FileRead(data_file, 0) = FullBlock
    /\ FileRead(data_file, 1) = ShortData \o Zeros(BlockSize - Len(ShortData))
    /\ FileRead(log_file, 1) = FullBlock

\* C22: read of a block that starts at or beyond the end of the file succeeds
\* with block_size zero bytes and leaves the file's length alone; pin of such
\* a block of the data file yields an empty page.
C22_ReadPastEndIsZeros ==
    [][/\ (/\ last_op'.op = "read"
           /\ StartingOffset(last_op'.block) >= Len(FileOf(last_op'.file)))
             => /\ last_op'.result = "ok"
                /\ last_op'.value = Zeros(BlockSize)
                /\ Len(FileOfNext(last_op'.file)) = Len(FileOf(last_op'.file))
       /\ (/\ last_op'.op = "pin"
           /\ StartingOffset(last_op'.block) >= Len(data_file))
             => /\ last_op'.result = "ok" /\ last_op'.loaded
                /\ buffer_pool'[last_op'.frame].page = << BufferPageNew >>
                /\ Len(data_file') = Len(data_file)
      ]_vars

C22_Witness ==
    /\ last_op.op = "pin" /\ last_op.result = "ok" /\ last_op.block = 1
    /\ Len(data_file) = BlockSize
    /\ FileRead(data_file, 0) = FullBlock
    /\ buffer_pool[last_op.frame].page = << BufferPageNew >>

\* C23: append_empty_block returns the block whose number is the file's block
\* count before the call (0 for a new file), the file then has one block
\* more, that block is all zeros, the blocks the file had are unchanged, and
\* a file made of whole blocks grows by exactly block_size bytes.
C23_AppendEmptyBlock ==
    [][last_op'.op = "append_empty_block"
          => /\ last_op'.result = "ok"
             /\ last_op'.block = NumberOfBlocks(FileOf(last_op'.file))
             /\ Len(FileOf(last_op'.file)) = 0 => last_op'.block = 0
             /\ NumberOfBlocks(FileOfNext(last_op'.file))
                   = NumberOfBlocks(FileOf(last_op'.file)) + 1
             /\ FileRead(FileOfNext(last_op'.file), last_op'.block)
                   = Zeros(BlockSize)
             /\ \A m \in 0..(last_op'.block - 1) :
                   FileRead(FileOfNext(last_op'.file), m)
                      = FileRead(FileOf(last_op'.file), m)
             /\ Len(FileOf(last_op'.file)) % BlockSize = 0
                   => FileOfNext(last_op'.file)
                         = FileOf(last_op'.file) \o Zeros(BlockSize)
      ]_vars

C23_Witness ==
    /\ last_op.op = "append_empty_block" /\ last_op.file = "data"
    /\ last_op.block = 1
    /\ data_file = FullBlock \o Zeros(BlockSize)

\* C24 (as claimed): number_of_blocks returns length / block_size when the
\* length is a multiple of block_size and fails fatally when the file has
\* partial trailing bytes.
C24_NumberOfBlocksRejectsPartial ==
    last_op.op = "number_of_blocks"
       => IF Len(FileOf(last_op.file)) % BlockSize = 0
          THEN /\ last_op.result = "ok"
               /\ last_op.count * BlockSize = Len(FileOf(last_op.file))
          ELSE last_op.result = "panic"

\* the length of every file of the directory is a multiple of block_size
WholeBlocks == \A name \in FileNames : Len(FileOf(name)) % BlockSize = 0

WholeBlocksNext == \A name \in FileNames : Len(FileOfNext(name)) % BlockSize = 0

SamePage(f, g) ==
    /\ g.page[1].starting_offsets = f.page[1].starting_offsets
    /\ g.page[1].types = f.page[1].types
    /\ g.page[1].current_write_offset = f.page[1].current_write_offset
    /\ (f.contract_ok /\ PageFits(f.page[1]))
          => \A j \in 0..(Len(f.page[1].types) - 1) :
                FieldAt(g.page[1], j) = FieldAt(f.page[1], j)

\* the pin recorded in last_op' failed in the flush of the dirty frame
FlushFailedInPin ==
    /\ last_op'.op = "pin" /\ last_op'.result = "io_error"
    /\ last_op'.panic_at \in { "log_write", "write" }

\* C26: when the log flush or the page write of a reassignment fails, pin
\* returns the I/O error and the frame keeps its old block, its page, its
\* dirty marker, its lsn and its pin count, and available is unchanged.
C26_FlushFailureLeavesFrame ==
    [][FlushFailedInPin
          => /\ buffer_pool'[last_op'.frame].block_id
                   = buffer_pool[last_op'.frame].block_id
             /\ buffer_pool'[last_op'.frame].block_id # << last_op'.block >>
             /\ SamePage(buffer_pool[last_op'.frame], buffer_pool'[last_op'.frame])
             /\ buffer_pool'[last_op'.frame].transaction_number
                   = buffer_pool[last_op'.frame].transaction_number
             /\ buffer_pool'[last_op'.frame].transaction_number >= 0
             /\ buffer_pool'[last_op'.frame].log_sequence_number
                   = buffer_pool[last_op'.frame].log_sequence_number
             /\ buffer_pool'[last_op'.frame].pins = buffer_pool[last_op'.frame].pins
             /\ available_buffers' = available_buffers
             /\ handle' = 0]_vars

C26_Witness ==
    /\ last_op.op = "pin" /\ last_op.result = "io_error"
    /\ last_op.panic_at = "write" /\ last_op.log_flushed
    /\ last_op.block = 1
    /\ buffer_pool[last_op.frame].block_id = << 0 >>
    /\ buffer_pool[last_op.frame].transaction_number = 10
    /\ Len(buffer_pool[last_op.frame].fields) = 2
    /\ buffer_pool[last_op.frame].contract_ok
    /\ PageFits(buffer_pool[last_op.frame].page[1])

\* the records log page p holds, oldest first
PageRecords(p) ==
    [i \in 1..Len(p.starting_offsets) |-> BytesAt(p, p.starting_offsets[i]).value]

\* C27: when the write of a force-flush fails, in flush, in backward_iterator
\* or in the rollover of append, last_saved_lsn, latest_lsn, the current
\* block id and the records of the in-memory log page are unchanged.
C27_FailedForceFlushKeepsState ==
    [][(last_op'.result = "io_error" /\ last_op'.panic_at = "write"
        /\ last_op'.op \in { "flush", "backward_iterator", "append" })
          => /\ last_saved_log_sequence_number' = last_saved_log_sequence_number
             /\ latest_log_sequence_number' = latest_log_sequence_number
             /\ current_block_id' = current_block_id
             /\ log_page'.starting_offsets = log_page.starting_offsets
             /\ log_page'.current_write_offset = log_page.current_write_offset
             /\ PageRecords(log_page') = PageRecords(log_page)]_vars

C27_Witness ==
    /\ last_op.op = "append" /\ last_op.result = "io_error"
    /\ last_op.panic_at = "write"
    /\ latest_log_sequence_number = 2
    /\ last_saved_log_sequence_number = 0
    /\ PageRecords(log_page) = << <<7>>, <<7>> >>

\* C28: for a payload of at most 65535 bytes and an offset at which
\* offset + 2 + length fits the destination, encode returns 2 + length, decode
\* at that offset returns the payload and end_offset = offset + 2 + length,
\* and the destination is unchanged outside [offset, offset + 2 + length);
\* when the destination cannot hold 2 + length bytes from the offset, encode
\* panics and has written nothing.
C28_BytesCodecRoundTrip ==
    [][/\ (last_op'.op = "encode" /\ Len(last_op'.source) <= U16_MAX)
          => \E off \in { last_op'.index }, source \in { last_op'.source } :
               IF off + 2 + Len(source) <= Len(last_op.value)
               THEN /\ last_op'.result = "ok"
                    /\ last_op'.count = 2 + Len(source)
                    /\ BytesDecode(last_op'.value, off)
                         = [ok |-> TRUE, value |-> source,
                            end_offset |-> off + 2 + Len(source)]
                    /\ Len(last_op'.value) = Len(last_op.value)
                    /\ \A k \in (0..(off - 1))
                                 \cup ((off + 2 + Len(source))..(Len(last_op.value) - 1)) :
                          last_op'.value[k + 1] = last_op.value[k + 1]
               ELSE /\ last_op'.result = "panic"
                    /\ last_op'.value = last_op.value
                    /\ ~alive'
       /\ (/\ last_op.op = "encode" /\ last_op.result = "ok"
           /\ Len(last_op.source) <= U16_MAX
           /\ last_op'.op = "decode" /\ last_op'.index = last_op.index)
          => /\ last_op'.result = "ok"
             /\ last_op'.source = last_op.source
             /\ last_op'.count = last_op.index + 2 + Len(last_op.source)]_vars

\* a 65535-byte payload encoded at offset 1 and decoded again
C28_Witness ==
    /\ last_op.op = "decode" /\ last_op.result = "ok"
    /\ last_op.index = 1
    /\ Len(last_op.source) = U16_MAX
    /\ last_op.count = U16_MAX + 3

C30_DirtyMarkerDiscipline ==
    /\ [](\A i \in 1..Len(buffer_pool) :
             buffer_pool[i].transaction_number >= 0
               => buffer_pool[i].page # <<>> /\ buffer_pool[i].block_id # <<>>)
    /\ [][(last_op'.op = "pin" /\ last_op'.result = "ok" /\ last_op'.loaded)
            => \E f \in { buffer_pool[last_op'.frame] },
                  g \in { buffer_pool'[last_op'.frame] },
                  b \in { last_op'.block } :
                 /\ g.transaction_number = -1
                 /\ HasBlockId(g, b)
                 /\ f.transaction_number >= 0
                      => /\ ~HasBlockId(f, b)
                         /\ last_op'.page_written
                         /\ last_op'.written_block = f.block_id[1]
                         /\ FileRead(data_file', f.block_id[1])
                              = BufferPageFinish(f.page[1]).page.buffer
                         /\ FileRead(data_file', b) = FileRead(data_file, b)
                 /\ f.transaction_number < 0 => data_file' = data_file]_vars

\* a dirty frame bound to block 0 was reassigned to block 1
C30_Witness ==
    /\ last_op.op = "pin" /\ last_op.result = "ok" /\ last_op.loaded
    /\ last_op.page_written
    /\ last_op.written_block = 0 /\ last_op.block = 1
    /\ buffer_pool[last_op.frame].transaction_number = -1
    /\ HasBlockId(buffer_pool[last_op.frame], 1)
    /\ FileRead(data_file, 0) # Zeros(BlockSize)
    /\ FileRead(data_file, 1) = Zeros(BlockSize)

\* C31: the current block of the LogManager is the last block of the log
\* file: after new and after every append,
\* current_block_id = number_of_blocks(log file) - 1.
C31_CurrentBlockIsLast ==
    alive => current_block_id = NumberOfBlocks(log_file) - 1

\* C32: decoding a block whose directory count is zero, as a pin of the
\* block does, returns without a panic a page over the block's bytes with no
\* fields and current_write_offset 0; a field added to that page is stored at
\* offset 0 and reads back at index 0.
C32_ZeroCountDecodesToEmptyPage ==
    [][/\ (/\ last_op'.op = "pin"
           /\ ReadU16(FileRead(data_file, last_op'.block),
                      BlockSize - RESERVED_SIZE_FOR_NUMBER_OF_OFFSETS) = 0)
          => /\ last_op'.result = "ok" /\ last_op'.loaded
             /\ buffer_pool'[last_op'.frame].page
                  = << [buffer |-> FileRead(data_file, last_op'.block),
                        starting_offsets |-> <<>>, types |-> <<>>,
                        current_write_offset |-> 0] >>
       /\ (last_op'.op = "add" /\ buffer_pool[handle].page[1].starting_offsets = <<>>)
          => \E p \in { buffer_pool'[handle].page[1] },
                f \in { buffer_pool'[handle].fields[1] } :
               /\ last_op'.result = "ok"
               /\ p.starting_offsets = << 0 >>
               /\ p.types = << f.type >>
               /\ FieldAt(p, 0) = [ok |-> TRUE, value |-> f.value]]_vars

\* a field was added to the page decoded from a block that holds bytes but a
\* count of zero
C32_Witness ==
    /\ last_op.op = "add" /\ last_op.result = "ok"
    /\ data_file = ShortData
    /\ \E p \in { buffer_pool[handle].page[1] } :
          /\ Len(p.starting_offsets) = 1
          /\ FieldAt(p, 0) = [ok |-> TRUE, value |-> << 5 >>]

\* the step encoded and decoded a page that held at least one field
DecodedWithFields ==
    last_op'.op = "decode" /\ Len(HeldPage.starting_offsets) >= 1

\* the step added a field to a page that the step before had decoded
AddedAfterDecode ==
    /\ last_op.op = "decode" /\ last_op.result = "ok"
    /\ Len(HeldPage.starting_offsets) >= 1
    /\ last_op'.op = "add"

\* the add stored the field after every payload of the page, gave it the next
\* index and left what every earlier index reads
AddedBehindPayloads ==
    \E n \in { Len(HeldPage.starting_offsets) } :
       /\ last_op'.result = "ok"
       /\ Len(HeldPage'.starting_offsets) = n + 1
       /\ \A i \in 1..n :
             /\ FieldAt(HeldPage, i - 1).ok
             /\ DecodeField(HeldPage.types[i], HeldPage.buffer,
                            HeldPage.starting_offsets[i]).end_offset
                   <= HeldPage'.starting_offsets[n + 1]
             /\ FieldAt(HeldPage', i - 1) = FieldAt(HeldPage, i - 1)
             /\ FieldAt(HeldPage, i - 1).value = buffer_pool[handle].fields[i].value
       /\ FieldAt(HeldPage', n)
             = [ok |-> TRUE, value |-> buffer_pool'[handle].fields[n + 1].value]

\* C33 (as claimed): for a page p with at least one field,
\* decode_from(encode(p)) has p's current_write_offset, so a field added to
\* the decoded page is stored after all existing payloads, gets index N, and
\* every earlier field still reads its previous value.
C33_DecodeRecoversWriteOffset ==
    [][/\ DecodedWithFields
            => /\ last_op'.result = "ok"
               /\ HeldPage'.current_write_offset = HeldPage.current_write_offset
       /\ AddedAfterDecode => AddedBehindPayloads]_vars

\* C33 (amended): the same for a page whose payloads and directory fit in
\* the block and whose mutations kept the encoded size of the field replaced.
C33_RecoversWriteOffsetIfFits ==
    [][/\ (DecodedWithFields /\ buffer_pool[handle].contract_ok /\ PageFits(HeldPage))
            => /\ last_op'.result = "ok"
               /\ HeldPage'.current_write_offset = HeldPage.current_write_offset
       /\ (AddedAfterDecode /\ buffer_pool[handle].contract_ok)
            => AddedBehindPayloads]_vars

\* a string was added behind the field of a decoded page
C33_Witness ==
    /\ last_op.op = "add" /\ last_op.result = "ok"
    /\ buffer_pool[handle].contract_ok
    /\ expected[0].ok
    /\ expected[0].fields = << [type |-> "TypeU16", value |-> <<513>>] >>
    /\ Len(buffer_pool[handle].fields) = 2
    /\ HeldPage.starting_offsets = << 0, 2 >>
    /\ FieldAt(HeldPage, 0) = [ok |-> TRUE, value |-> << 513 >>]
    /\ FieldAt(HeldPage, 1) = [ok |-> TRUE, value |-> << 104 >>]

\* C34: a LogPage.add that returns false leaves the page's buffer, starting
\* offsets and current_write_offset as they were, and an add of a record
\* that fits succeeds whatever adds were refused before it.
C34_RefusedAddChangesNothing ==
    [][last_op'.op = "page_add"
          => /\ last_op'.result = "refused" => log_page' = log_page
             /\ FreeRegionHolds(log_page, last_op'.value)
                   => /\ last_op'.result = "ok"
                      /\ log_page'.starting_offsets
                            = Append(log_page.starting_offsets,
                                     log_page.current_write_offset)
                      /\ BytesAt(log_page', log_page.current_write_offset).value
                            = last_op'.value]_vars

\* a record was added after the page had refused a longer one
C34_Witness ==
    /\ last_op.op = "page_add" /\ last_op.result = "ok"
    /\ last_op.count >= 1
    /\ PageRecords(log_page) = << <<7>>, <<7>> >>

\* C37: on a log page, fresh or decoded from what finish produced, after any
\* adds current_write_offset + 4 * records + 2 <= block size, every record
\* lies wholly before the directory, and finish leaves every record as it
\* was.
C37_LogPageLayout ==
    /\ [](\E n \in { Len(log_page.starting_offsets) } :
             /\ log_page.current_write_offset + SIZE_OF_OFFSET * n
                   + RESERVED_SIZE_FOR_NUMBER_OF_OFFSETS <= BlockSize
             /\ Len(log_page.buffer) = BlockSize
             /\ \A i \in 1..n :
                   /\ BytesAt(log_page, log_page.starting_offsets[i]).ok
                   /\ BytesAt(log_page, log_page.starting_offsets[i]).end_offset
                         <= BlockSize - SIZE_OF_OFFSET * n
                              - RESERVED_SIZE_FOR_NUMBER_OF_OFFSETS)
    /\ [][last_op'.op = "page_decode"
            => /\ Len(log_page.starting_offsets) > 0 => last_op'.result = "ok"
               /\ log_page'.starting_offsets = log_page.starting_offsets
               /\ log_page'.current_write_offset = log_page.current_write_offset
               /\ PageRecords(log_page') = PageRecords(log_page)]_vars

\* a page that is full to the last byte, decoded from its own finish
C37_Witness ==
    /\ last_op.op = "page_decode" /\ last_op.result = "ok"
    /\ Len(log_page.starting_offsets) = 2
    /\ log_page.current_write_offset + SIZE_OF_OFFSET * 2
          + RESERVED_SIZE_FOR_NUMBER_OF_OFFSETS = BlockSize
    /\ PageRecords(log_page) = << <<7>>, <<7>> >>

C36_DirtyEvictionCompletes ==
    [][ \A i \in 1..Len(buffer_pool) :
          ( /\ last_op'.op = "pin"
            /\ available_buffers > 0
            /\ PinTarget(buffer_pool, last_op'.block, 1) = [kind |-> "assign", index |-> i]
            /\ FlushGuard(buffer_pool[i]) )
          => /\ last_op'.result = "ok"
             /\ alive'
             /\ handle' = i
             /\ HasBlockId(buffer_pool'[i], last_op'.block)
             /\ buffer_pool'[i].pins = 1 ]_vars

\* C38: a pin that reassigns a clean frame (transaction_number = -1) writes
\* no data block and flushes no log: both files, the log page and
\* last_saved_log_sequence_number are unchanged, so what was added to the page
\* without a following set_modified does not reach the disk.
C38_CleanEvictionWritesNothing ==
    [][ \A i \in 1..Len(buffer_pool) :
          ( /\ last_op'.op = "pin"
            /\ PinTarget(buffer_pool, last_op'.block, 1) = [kind |-> "assign", index |-> i]
            /\ buffer_pool[i].transaction_number < 0 )
          => /\ data_file' = data_file
             /\ log_file' = log_file
             /\ log_page' = log_page
             /\ last_saved_log_sequence_number' = last_saved_log_sequence_number
             /\ expected' = expected
             /\ ~last_op'.page_written
             /\ ~last_op'.log_flushed ]_vars

\* block 0 is on disk with a field, and the frame that held it again was
\* handed to block 1 without a write
C38_Witness ==
    /\ last_op.op = "pin"
    /\ last_op.result = "ok"
    /\ last_op.loaded
    /\ last_op.block = 1
    /\ ~last_op.page_written
    /\ ~last_op.log_flushed
    /\ expected[0].fields # <<>>
    /\ buffer_pool[1].transaction_number < 0

\* C39: on a LogManager to which no record was ever appended, flush(lsn)
\* and backward_iterator() complete without a fatal error, and the first
\* record() of the iterator returns None.
C39_FreshLogFlushAndIterate ==
    [][ written = <<>>
          => /\ last_op'.op \in { "flush", "backward_iterator" }
                  => last_op'.result = "ok" /\ alive'
             /\ last_op'.op = "record" => last_op'.result = "none" ]_vars

====
